---- MODULE Spec2Model ----
(***************************************************************************)
(* Command interpretation and category query engine of the DSNS timeline   *)
(* bot: CommandRouter.parse_command and its category expression parser     *)
(* (src/command_router.py) and the category queries of TimelineDatabase    *)
(* (src/database.py).                                                      *)
(*                                                                         *)
(* A Python str is a sequence of characters.  An ASCII character is the    *)
(* one-character string itself ("a", "+", " ").  A Japanese character is   *)
(* named by a string with a script prefix: "k:ka" is katakana KA, "h:ke"   *)
(* is hiragana KE, "j:nen" is the kanji NEN (year).  "k:chou" is the long  *)
(* vowel mark, an "x" marks a small kana ("h:xyo"), "zsp" is the           *)
(* ideographic space U+3000.  Texts are single lines (no newline) over     *)
(* ASCII and these characters.                                             *)
(***************************************************************************)
EXTENDS Integers, Sequences, FiniteSets, TLC

VARIABLES
    phase,          \* "input" / "parsed" (parser), "store" / "queried" (event store),
                    \* "compose" / "composed" (replies), "received" / "routed" (router),
                    \* "serving" (router under concurrent calls)
    content,        \* parse_command: the mention text
    bot_username,   \* parse_command: the optional bot handle (None or a name)
    command,        \* parse_command / parse_*_command: the returned dict (None before the call)
    entry,          \* which parser entry point the text is handed to
    cat_expr_in,    \* the category expression embedded in the text (expression specs)
    events,         \* timeline_events table: rows in rowid order
    last_event_id,  \* the AUTOINCREMENT counter of the table
    q_fn,           \* store query: the method called
    q_include,      \* store query: categories
    q_exclude,      \* store query: exclude_categories
    q_limit,        \* store query: limit
    q_range,        \* store query: <<start_year, end_year>> (decade query)
    q_scan,         \* store query: the table rows in the order the engine scanned them
    q_result,       \* store query: returned value
    a_fn,           \* message assembly: the method called
    a_events,       \* message assembly: the events (items) handed over
    a_header,       \* message assembly: header_parts / the message built so far
    a_footer,       \* message assembly: footer_parts
    a_max,          \* message assembly: max_chars
    a_result,       \* message assembly: the returned string
    a_command,      \* handler: the command dict handed to handle()
    note,           \* route_message: the note (its text attribute)
    handlers,       \* CommandRouter.handlers: the command types with a registered handler
    raising,        \* route_message: the handlers whose handle() raises during the call
    called,         \* route_message: the handlers whose handle() was awaited, in order
    reply,          \* route_message: the returned string
    command_count,  \* CommandRouter.command_count
    error_count,    \* CommandRouter.error_count
    calls           \* concurrent route_message calls: where each coroutine stands

cmdvars == <<content, bot_username, command, entry, cat_expr_in>>

dbvars == <<events, last_event_id, q_fn, q_include, q_exclude, q_limit, q_range,
            q_scan, q_result>>

asmvars == <<a_fn, a_events, a_header, a_footer, a_max, a_result, a_command>>

rtvars == <<note, handlers, raising, called, reply, command_count, error_count, calls>>

vars == <<phase, cmdvars, dbvars, asmvars, rtvars>>

\* Python None, as a value that has a type field like every command dict
None == [type |-> "None"]

-----------------------------------------------------------------------------
(* Python str primitives over sequences of characters *)

Min(S) == CHOOSE x \in S : \A y \in S : x <= y

Max(S) == CHOOSE x \in S : \A y \in S : x >= y

UpperChars == <<"A","B","C","D","E","F","G","H","I","J","K","L","M",
                "N","O","P","Q","R","S","T","U","V","W","X","Y","Z">>

LowerChars == <<"a","b","c","d","e","f","g","h","i","j","k","l","m",
                "n","o","p","q","r","s","t","u","v","w","x","y","z">>

\* str.lower() on one character: ASCII letters fold, kana and kanji have no case
LowerChar(c) ==
    IF \E i \in 1..26 : UpperChars[i] = c
    THEN LowerChars[CHOOSE i \in 1..26 : UpperChars[i] = c]
    ELSE c

\* str.lower()
Lower(s) == [i \in 1..Len(s) |-> LowerChar(s[i])]

Digits == <<"0","1","2","3","4","5","6","7","8","9">>

\* \d of the re module
IsDigit(c) == \E i \in 1..10 : Digits[i] = c

DigitVal(c) == (CHOOSE i \in 1..10 : Digits[i] = c) - 1

\* \s of the re module, and the characters str.strip() / str.split() remove
IsSpace(c) == c \in {" ", "zsp"}

\* the characters of the model alphabet that \w does not match
NonWordChars == {" ", "zsp", "+", "-", "@"}

\* \w of the re module (Unicode: letters, digits, underscore, kana, kanji)
IsWord(c) == c \notin NonWordChars

\* the character class [\w\-\+]
IsExprChar(c) == IsWord(c) \/ c = "-" \/ c = "+"

\* s[i:] (positions from 1)
From(s, i) == SubSeq(s, i, Len(s))

\* s.startswith(pat) at position i
MatchAt(s, i, pat) ==
    /\ i >= 1
    /\ i + Len(pat) - 1 <= Len(s)
    /\ SubSeq(s, i, i + Len(pat) - 1) = pat

Occurrences(s, pat) == {i \in 1..Len(s) : MatchAt(s, i, pat)}

\* pat in s
Contains(s, pat) == Len(pat) = 0 \/ Occurrences(s, pat) # {}

\* any(keyword in s for keyword in keywords)
ContainsAny(s, keywords) == \E k \in 1..Len(keywords) : Contains(s, keywords[k])

StartsWith(s, pat) == MatchAt(s, 1, pat)

RECURSIVE StrReplace(_, _, _)
\* s.replace(old, new), old non-empty: leftmost non-overlapping occurrences
StrReplace(s, old, new) ==
    IF Len(s) < Len(old) THEN s
    ELSE IF MatchAt(s, 1, old)
         THEN new \o StrReplace(From(s, Len(old) + 1), old, new)
         ELSE <<s[1]>> \o StrReplace(Tail(s), old, new)

RECURSIVE LStrip(_)
LStrip(s) == IF Len(s) > 0 /\ IsSpace(s[1]) THEN LStrip(Tail(s)) ELSE s

RECURSIVE RStrip(_)
RStrip(s) ==
    IF Len(s) > 0 /\ IsSpace(s[Len(s)]) THEN RStrip(SubSeq(s, 1, Len(s) - 1)) ELSE s

\* s.strip()
Strip(s) == RStrip(LStrip(s))

RECURSIVE Split(_, _)
\* s.split(sep) for a one-character separator: empty pieces are kept
Split(s, sep) ==
    IF \E i \in 1..Len(s) : s[i] = sep
    THEN LET i == Min({j \in 1..Len(s) : s[j] = sep})
         IN  <<SubSeq(s, 1, i - 1)>> \o Split(From(s, i + 1), sep)
    ELSE <<s>>

\* s.split(sep, 1) when sep occurs in s: the pieces before and after the first sep
Split1(s, sep) ==
    LET i == Min({j \in 1..Len(s) : s[j] = sep})
    IN  <<SubSeq(s, 1, i - 1), From(s, i + 1)>>

RECURSIVE SplitWs(_)
\* s.split(): the maximal runs of non-whitespace characters
SplitWs(s) ==
    LET t == LStrip(s)
    IN  IF Len(t) = 0 THEN <<>>
        ELSE LET ends == {j \in 1..Len(t) : IsSpace(t[j])}
                 e == IF ends = {} THEN Len(t) + 1 ELSE Min(ends)
             IN  <<SubSeq(t, 1, e - 1)>> \o SplitWs(From(t, e))

RECURSIVE Concat(_)
\* ''.join(parts)
Concat(parts) == IF Len(parts) = 0 THEN <<>> ELSE Head(parts) \o Concat(Tail(parts))

RECURSIVE JoinWith(_, _)
\* sep.join(parts)
JoinWith(parts, sep) ==
    IF Len(parts) = 0 THEN <<>>
    ELSE IF Len(parts) = 1 THEN Head(parts)
    ELSE Head(parts) \o sep \o JoinWith(Tail(parts), sep)

RECURSIVE SelectNonEmpty(_)
\* [p.strip() for p in parts if p.strip()]
SelectNonEmpty(parts) ==
    IF Len(parts) = 0 THEN <<>>
    ELSE IF Len(Strip(Head(parts))) > 0
         THEN <<Strip(Head(parts))>> \o SelectNonEmpty(Tail(parts))
         ELSE SelectNonEmpty(Tail(parts))

\* the first position >= i of s that holds no whitespace (Len(s)+1 when none)
SkipSpaces(s, i) ==
    LET P == {j \in i..Len(s) : ~IsSpace(s[j])}
    IN  IF P = {} THEN Len(s) + 1 ELSE Min(P)

\* the end of the maximal run of characters of class [\w\-\+] starting at i
ExprRunEnd(s, i) ==
    LET P == {j \in i..Len(s) : ~IsExprChar(s[j])}
    IN  IF P = {} THEN Len(s) ELSE Min(P) - 1

\* the end of the maximal run of non-whitespace characters starting at i
NonSpaceRunEnd(s, i) ==
    LET P == {j \in i..Len(s) : IsSpace(s[j])}
    IN  IF P = {} THEN Len(s) ELSE Min(P) - 1

RECURSIVE ToInt(_)
\* int(digits)
ToInt(ds) ==
    IF Len(ds) = 0 THEN 0
    ELSE 10 * ToInt(SubSeq(ds, 1, Len(ds) - 1)) + DigitVal(ds[Len(ds)])

AllDigits(s, i, n) == i + n - 1 <= Len(s) /\ \A j \in i..(i + n - 1) : IsDigit(s[j])

-----------------------------------------------------------------------------
(* Keywords of command_router.py, as character sequences *)

\* 'カテゴリ'
KwCategory == <<"k:ka", "k:te", "k:go", "k:ri">>

\* '統計'
KwToukei == <<"j:tou", "j:kei">>

\* '一覧'
KwIchiran == <<"j:ichi", "j:ran">>

\* '分析'
KwBunseki == <<"j:bun", "j:seki">>

\* '年代'
KwNendai == <<"j:nen", "j:dai">>

\* '検索'
KwKensaku == <<"j:ken", "j:saku">>

\* 'ヘルプ'
KwHelp == <<"k:he", "k:ru", "k:pu">>

\* 'ステータス'
KwStatus == <<"k:su", "k:te", "k:chou", "k:ta", "k:su">>

\* '今日'
KwKyou == <<"j:kon", "j:nichi">>

HelpKeywords ==
    << <<"h","e","l","p">>,
       KwHelp,
       <<"j:tsuka", "h:i", "j:kata">>,
       <<"h:tsu", "h:ka", "h:i", "h:ka", "h:ta">>,
       <<"k:ko", "k:ma", "k:n", "k:do">> >>

StatusKeywords ==
    << <<"s","t","a","t","u","s">>,
       KwStatus,
       <<"j:jou", "j:tai">>,
       <<"h:ji", "h:xyo", "h:u", "h:ta", "h:i">> >>

\* 'サーバー'
KwServer == <<"k:sa", "k:chou", "k:ba", "k:chou">>

\* 'ボット'
KwBot == <<"k:bo", "k:xtsu", "k:to">>

\* '年表'
KwNenpyou == <<"j:nen", "j:hyou">>

SearchKeywords ==
    << KwKensaku,
       <<"h:ke", "h:n", "h:sa", "h:ku">>,
       <<"s","e","a","r","c","h">>,
       <<"j:saga", "h:shi", "h:te">>,
       <<"h:sa", "h:ga", "h:shi", "h:te">> >>

TodayKeywords ==
    << KwKyou,
       <<"h:ki", "h:xyo", "h:u">>,
       <<"t","o","d","a","y">> >>

CategoryStatsKeywords ==
    << KwCategory \o KwToukei,
       KwCategory \o <<" ">> \o KwToukei,
       <<"c","a","t","e","g","o","r","y"," ","s","t","a","t","s">>,
       <<"c","a","t","e","g","o","r","y"," ","s","t","a","t","i","s","t","i","c","s">> >>

CategoryListKeywords ==
    << KwCategory \o KwIchiran,
       KwCategory \o <<" ">> \o KwIchiran,
       <<"c","a","t","e","g","o","r","y"," ","l","i","s","t">>,
       <<"c","a","t","e","g","o","r","i","e","s">> >>

\* sub_commands of parse_decade_command, in dict order; the keys are
\* '統計' ("toukei"), '代表' ("daihyou") and '概要' ("gaiyou")
DecadeSubCommands ==
    << [name |-> "toukei",
        keywords |-> << KwToukei,
                        <<"h:to", "h:u", "h:ke", "h:i">>,
                        <<"s","t","a","t","s">>,
                        <<"s","t","a","t","i","s","t","i","c","s">> >>],
       [name |-> "daihyou",
        keywords |-> << <<"j:dai", "j:hyou">>,
                        <<"h:da", "h:i", "h:hi", "h:xyo", "h:u">>,
                        <<"j:juu", "j:you">>,
                        <<"h:ji", "h:xyu", "h:u", "h:yo", "h:u">>,
                        <<"r","e","p","r","e","s","e","n","t","a","t","i","v","e">> >>],
       [name |-> "gaiyou",
        keywords |-> << <<"j:gai", "j:you">>,
                        <<"h:ga", "h:i", "h:yo", "h:u">>,
                        <<"h:ma", "h:to", "h:me">>,
                        <<"s","u","m","m","a","r","y">>,
                        <<"o","v","e","r","v","i","e","w">> >>] >>

\* decade_strings of parse_decade_command, in dict order
DecadeStrings ==
    << [str |-> <<"1","9","2","0">> \o KwNendai, start |-> 1920],
       [str |-> <<"3","0">> \o KwNendai,         start |-> 1930],
       [str |-> <<"1","9","3","0">> \o KwNendai, start |-> 1930],
       [str |-> <<"4","0">> \o KwNendai,         start |-> 1940],
       [str |-> <<"1","9","4","0">> \o KwNendai, start |-> 1940],
       [str |-> <<"5","0">> \o KwNendai,         start |-> 1950],
       [str |-> <<"1","9","5","0">> \o KwNendai, start |-> 1950],
       [str |-> <<"6","0">> \o KwNendai,         start |-> 1960],
       [str |-> <<"1","9","6","0">> \o KwNendai, start |-> 1960],
       [str |-> <<"7","0">> \o KwNendai,         start |-> 1970],
       [str |-> <<"1","9","7","0">> \o KwNendai, start |-> 1970],
       [str |-> <<"8","0">> \o KwNendai,         start |-> 1980],
       [str |-> <<"1","9","8","0">> \o KwNendai, start |-> 1980],
       [str |-> <<"9","0">> \o KwNendai,         start |-> 1990],
       [str |-> <<"1","9","9","0">> \o KwNendai, start |-> 1990],
       [str |-> <<"k:ze", "k:ro">> \o KwNendai,  start |-> 2000],
       [str |-> <<"j:rei">> \o KwNendai,         start |-> 2000],
       [str |-> <<"2","0","0","0">> \o KwNendai, start |-> 2000],
       [str |-> <<"1","0">> \o KwNendai,         start |-> 2010],
       [str |-> <<"2","0","1","0">> \o KwNendai, start |-> 2010],
       [str |-> <<"k:te", "k:n">> \o KwNendai,   start |-> 2010],
       [str |-> <<"2","0","2","0">> \o KwNendai, start |-> 2020] >>

-----------------------------------------------------------------------------
(* The category expression block of command_router.py.  The same statements *)
(* stand at lines 141-159 (search), 299-314 (decade), 367-383 (analysis)    *)
(* and 409-425 (filter).                                                    *)

\* the exclude loop without the second split: 'meme-incident' stays one tag
ExcludeLoop_Compound(exclude_parts) ==
    [i \in 1..Len(exclude_parts) |-> Strip(exclude_parts[i])]

RECURSIVE ExcludeLoop(_)
\* for part in exclude_parts: ... extend / append
ExcludeLoop(exclude_parts) ==
    IF Len(exclude_parts) = 0 THEN <<>>
    ELSE LET part == Head(exclude_parts)
         IN  (IF Contains(part, <<"-">>)
              THEN SelectNonEmpty(Split(part, "-"))
              ELSE <<Strip(part)>>) \o ExcludeLoop(Tail(exclude_parts))

\* the block without any handling of '-': everything is an include tag
ParseCategoryExpr_PlusOnly(cat_expr) ==
    [categories |-> SelectNonEmpty(Split(cat_expr, "+")),
     exclude_categories |-> <<>>]

\* cat_expr -> (categories, exclude_categories)
ParseCategoryExpr(cat_expr) ==
    LET hyphen       == Contains(cat_expr, <<"-">>)
        include_part == IF hyphen THEN Split1(cat_expr, "-")[1] ELSE cat_expr
        exclude_part == IF hyphen THEN Split1(cat_expr, "-")[2] ELSE <<>>
    IN  [categories |-> SelectNonEmpty(Split(include_part, "+")),
         exclude_categories |->
             IF Len(exclude_part) > 0
             THEN ExcludeLoop(Split(exclude_part, "+"))
             ELSE <<>>]

-----------------------------------------------------------------------------
(* The regular expressions of command_router.py; each operator gives the    *)
(* result of re.search: the leftmost match, greedy groups.                  *)

NoMatch == [matched |-> FALSE]

\* kw\s+([\w\-\+]+) for kw = 'カテゴリ' or 'カテゴリ分析'
CategoryPattern(text, kw) ==
    LET ok(i) == LET j == i + Len(kw)
                     k == SkipSpaces(text, j)
                 IN  /\ j <= Len(text)
                     /\ IsSpace(text[j])
                     /\ k <= Len(text)
                     /\ IsExprChar(text[k])
        starts == {i \in Occurrences(text, kw) : ok(i)}
    IN  IF starts = {} THEN NoMatch
        ELSE LET k == SkipSpaces(text, Min(starts) + Len(kw))
             IN  [matched |-> TRUE, group1 |-> SubSeq(text, k, ExprRunEnd(text, k))]

\* (\d{1,2})月(\d{1,2})日
DatePattern(text) ==
    LET ok(i, n1, n2) ==
            /\ AllDigits(text, i, n1)
            /\ MatchAt(text, i + n1, <<"j:gatsu">>)
            /\ AllDigits(text, i + n1 + 1, n2)
            /\ MatchAt(text, i + n1 + 1 + n2, <<"j:nichi">>)
        starts == {i \in 1..Len(text) : \E n1, n2 \in 1..2 : ok(i, n1, n2)}
    IN  IF starts = {} THEN NoMatch
        ELSE LET i  == Min(starts)
                 n1 == Max({n \in 1..2 : \E n2 \in 1..2 : ok(i, n, n2)})
                 n2 == Max({n \in 1..2 : ok(i, n1, n)})
             IN  [matched |-> TRUE,
                  group1 |-> SubSeq(text, i, i + n1 - 1),
                  group2 |-> SubSeq(text, i + n1 + 1, i + n1 + n2)]

\* (\d{n})年代 for n = 4 and n = 2
DecadePattern(text, n) ==
    LET starts == {i \in 1..Len(text) :
                      AllDigits(text, i, n) /\ MatchAt(text, i + n, KwNendai)}
    IN  IF starts = {} THEN NoMatch
        ELSE [matched |-> TRUE,
              group1 |-> SubSeq(text, Min(starts), Min(starts) + n - 1)]

\* '年から'
KwNenKara == <<"j:nen", "h:ka", "h:ra">>

\* (\d{4})年から(\d{4})年
RangePattern(text) ==
    LET starts == {i \in 1..Len(text) :
                      /\ AllDigits(text, i, 4)
                      /\ MatchAt(text, i + 4, KwNenKara)
                      /\ AllDigits(text, i + 7, 4)
                      /\ MatchAt(text, i + 11, <<"j:nen">>)}
    IN  IF starts = {} THEN NoMatch
        ELSE LET i == Min(starts)
             IN  [matched |-> TRUE,
                  group1 |-> SubSeq(text, i, i + 3),
                  group2 |-> SubSeq(text, i + 7, i + 10)]

\* (?:検索|けんさく|search|探して|さがして)\s*([^\s]+)\s*カテゴリ\s*(.+)
\* group 1 is the longest prefix of the non-space run after the keyword that
\* is followed by \s*カテゴリ and at least one more character; group 2 is
\* the rest of the line after カテゴリ and \s* (a single space when only
\* spaces are left).
SearchCatPattern(text) ==
    LET \* the ends e of group 1 that let the rest of the pattern match,
        \* for a keyword ending just before position p
        ends(p) ==
            LET p1 == SkipSpaces(text, p)
                q  == NonSpaceRunEnd(text, p1)
            IN  IF p1 > Len(text) THEN {}
                ELSE {e \in p1..q :
                         LET m == IF e = q THEN SkipSpaces(text, q + 1) ELSE e + 1
                         IN  /\ MatchAt(text, m, KwCategory)
                             /\ m + Len(KwCategory) <= Len(text)}
        kwAt(i) == {k \in 1..Len(SearchKeywords) : MatchAt(text, i, SearchKeywords[k])}
        ok(i) == \E k \in kwAt(i) : ends(i + Len(SearchKeywords[k])) # {}
        starts == {i \in 1..Len(text) : ok(i)}
    IN  IF starts = {} THEN NoMatch
        ELSE LET i  == Min(starts)
                 k  == Min({kk \in kwAt(i) : ends(i + Len(SearchKeywords[kk])) # {}})
                 p  == i + Len(SearchKeywords[k])
                 p1 == SkipSpaces(text, p)
                 q  == NonSpaceRunEnd(text, p1)
                 e  == Max(ends(p))
                 m  == IF e = q THEN SkipSpaces(text, q + 1) ELSE e + 1
                 t  == m + Len(KwCategory)
                 g  == SkipSpaces(text, t)
             IN  [matched |-> TRUE,
                  group1 |-> SubSeq(text, p1, e),
                  group2 |-> IF g <= Len(text) THEN From(text, g)
                             ELSE <<text[Len(text)]>>]

-----------------------------------------------------------------------------
(* CommandRouter.parse_decade_command *)

\* _get_decade_name: the decade the name is built from
get_decade_name(start_year) == (start_year \div 10) * 10

\* pattern 2 read as a year of this century: 2000 + NN
parse_decade_command_Century2000(text) ==
    LET hits  == {k \in 1..Len(DecadeStrings) : Contains(text, DecadeStrings[k].str)}
        m4    == DecadePattern(text, 4)
        m2    == DecadePattern(text, 2)
        mr    == RangePattern(text)
        decade_match == hits # {} \/ m4.matched \/ m2.matched \/ mr.matched
        start_year ==
            IF hits # {} THEN DecadeStrings[Min(hits)].start
            ELSE IF m4.matched THEN ToInt(m4.group1)
            ELSE IF m2.matched THEN 2000 + ToInt(m2.group1)
            ELSE ToInt(mr.group1)
        end_year ==
            IF hits # {} \/ m4.matched \/ m2.matched THEN start_year + 9
            ELSE ToInt(mr.group2)
        subs  == {k \in 1..Len(DecadeSubCommands) :
                     ContainsAny(text, DecadeSubCommands[k].keywords)}
        sub_command == IF subs = {} THEN "toukei" ELSE DecadeSubCommands[Min(subs)].name
        match == CategoryPattern(text, KwCategory)
        cats  == IF match.matched THEN ParseCategoryExpr(match.group1)
                 ELSE [categories |-> <<>>, exclude_categories |-> <<>>]
    IN  IF ~decade_match THEN None
        ELSE [type |-> "decade",
              sub_type |-> sub_command,
              start_year |-> start_year,
              end_year |-> end_year,
              decade_name |-> get_decade_name(start_year),
              categories |-> cats.categories,
              exclude_categories |-> cats.exclude_categories]

parse_decade_command(text) ==
    LET hits  == {k \in 1..Len(DecadeStrings) : Contains(text, DecadeStrings[k].str)}
        m4    == DecadePattern(text, 4)
        m2    == DecadePattern(text, 2)
        mr    == RangePattern(text)
        decade_match == hits # {} \/ m4.matched \/ m2.matched \/ mr.matched
        start_year ==
            IF hits # {} THEN DecadeStrings[Min(hits)].start
            ELSE IF m4.matched THEN ToInt(m4.group1)
            ELSE IF m2.matched THEN 1900 + ToInt(m2.group1)
            ELSE ToInt(mr.group1)
        end_year ==
            IF hits # {} \/ m4.matched \/ m2.matched THEN start_year + 9
            ELSE ToInt(mr.group2)
        subs  == {k \in 1..Len(DecadeSubCommands) :
                     ContainsAny(text, DecadeSubCommands[k].keywords)}
        sub_command == IF subs = {} THEN "toukei" ELSE DecadeSubCommands[Min(subs)].name
        match == CategoryPattern(text, KwCategory)
        cats  == IF match.matched THEN ParseCategoryExpr(match.group1)
                 ELSE [categories |-> <<>>, exclude_categories |-> <<>>]
    IN  IF ~decade_match THEN None
        ELSE [type |-> "decade",
              sub_type |-> sub_command,
              start_year |-> start_year,
              end_year |-> end_year,
              decade_name |-> get_decade_name(start_year),
              categories |-> cats.categories,
              exclude_categories |-> cats.exclude_categories]

-----------------------------------------------------------------------------
(* CommandRouter.parse_category_command *)

CategoryCommand(sub_type, cats) ==
    [type |-> "category",
     sub_type |-> sub_type,
     categories |-> cats.categories,
     exclude_categories |-> cats.exclude_categories]

NoCategories == [categories |-> <<>>, exclude_categories |-> <<>>]

\* if not categories and not exclude_categories: return None
EmptyFilter(cats) == Len(cats.categories) = 0 /\ Len(cats.exclude_categories) = 0

parse_category_command(text) ==
    LET analysis == CategoryPattern(text, KwCategory \o KwBunseki)
        filter   == CategoryPattern(text, KwCategory)
    IN  IF ContainsAny(text, CategoryStatsKeywords)
        THEN CategoryCommand("statistics", NoCategories)
        ELSE IF analysis.matched
        THEN CategoryCommand("analysis", ParseCategoryExpr(analysis.group1))
        ELSE IF ContainsAny(text, CategoryListKeywords)
        THEN CategoryCommand("list", NoCategories)
        ELSE IF filter.matched
        THEN IF EmptyFilter(ParseCategoryExpr(filter.group1))
             THEN None
             ELSE CategoryCommand("filter", ParseCategoryExpr(filter.group1))
        ELSE None

-----------------------------------------------------------------------------
(* CommandRouter.parse_command: the rules, in the order of the code *)

\* if bot_username: content = content.replace(f'@{bot_username}', '').strip()
\* (bot_username None and '' are both <<>>)
StripBotName(text, bot) ==
    IF Len(bot) > 0 THEN Strip(StrReplace(text, <<"@">> \o bot, <<>>)) ELSE text

\* the date rule without the validation of month and day
DateRule_Unvalidated(text) ==
    LET date_match == DatePattern(text)
    IN  IF date_match.matched
        THEN [type |-> "date", month |-> ToInt(date_match.group1),
              day |-> ToInt(date_match.group2)]
        ELSE None

\* lines 86-96
DateRule(text) ==
    LET date_match == DatePattern(text)
        month == ToInt(date_match.group1)
        day   == ToInt(date_match.group2)
    IN  IF date_match.matched /\ 1 <= month /\ month <= 12 /\ 1 <= day /\ day <= 31
        THEN [type |-> "date", month |-> month, day |-> day]
        ELSE None

\* lines 98-101
HelpRule(text) ==
    IF ContainsAny(Lower(text), HelpKeywords) THEN [type |-> "help"] ELSE None

\* the status rule without the test for a leading category keyword
StatusRule_Unguarded(text) ==
    LET content_lower == Lower(text)
        sub_command ==
            IF Contains(text, KwServer) \/ Contains(content_lower, <<"s","e","r","v","e","r">>)
            THEN "server"
            ELSE IF Contains(text, KwBot) \/ Contains(content_lower, <<"b","o","t">>)
            THEN "bot"
            ELSE IF Contains(text, KwNenpyou)
                    \/ Contains(content_lower, <<"t","i","m","e","l","i","n","e">>)
            THEN "timeline"
            ELSE "None"
    IN  IF ContainsAny(content_lower, StatusKeywords)
        THEN [type |-> "status", sub_command |-> sub_command]
        ELSE None

\* lines 103-120; sub_command None is "None"
StatusRule(text) ==
    LET content_lower == Lower(text)
        sub_command ==
            IF Contains(text, KwServer) \/ Contains(content_lower, <<"s","e","r","v","e","r">>)
            THEN "server"
            ELSE IF Contains(text, KwBot) \/ Contains(content_lower, <<"b","o","t">>)
            THEN "bot"
            ELSE IF Contains(text, KwNenpyou)
                    \/ Contains(content_lower, <<"t","i","m","e","l","i","n","e">>)
            THEN "timeline"
            ELSE "None"
    IN  IF ContainsAny(content_lower, StatusKeywords) /\ ~StartsWith(content_lower, KwCategory)
        THEN [type |-> "status", sub_command |-> sub_command]
        ELSE None

\* the search rule without the test that the plain query is non-empty
SearchRule_AnyQuery(text) ==
    LET content_lower == Lower(text)
        found == {k \in 1..Len(SearchKeywords) : Contains(content_lower, SearchKeywords[k])}
        match == SearchCatPattern(text)
        query(k) == Strip(StrReplace(text, SearchKeywords[k], <<>>))
        plain == found
    IN  IF found = {} \/ StartsWith(content_lower, KwCategory) THEN None
        ELSE IF match.matched
        THEN [type |-> "search",
              query |-> Strip(match.group1),
              categories |-> ParseCategoryExpr(Strip(match.group2)).categories,
              exclude_categories |-> ParseCategoryExpr(Strip(match.group2)).exclude_categories]
        ELSE IF plain # {}
        THEN [type |-> "search", query |-> query(Min(plain))]
        ELSE None

\* lines 122-177: the loop over search_keywords.  The combined pattern does
\* not depend on the keyword, so it decides at the first keyword found;
\* otherwise the first keyword found whose removal leaves a query decides.
SearchRule(text) ==
    LET content_lower == Lower(text)
        found == {k \in 1..Len(SearchKeywords) : Contains(content_lower, SearchKeywords[k])}
        match == SearchCatPattern(text)
        query(k) == Strip(StrReplace(text, SearchKeywords[k], <<>>))
        plain == {k \in found : Len(query(k)) > 0}
    IN  IF found = {} \/ StartsWith(content_lower, KwCategory) THEN None
        ELSE IF match.matched
        THEN [type |-> "search",
              query |-> Strip(match.group1),
              categories |-> ParseCategoryExpr(Strip(match.group2)).categories,
              exclude_categories |-> ParseCategoryExpr(Strip(match.group2)).exclude_categories]
        ELSE IF plain # {}
        THEN [type |-> "search", query |-> query(Min(plain))]
        ELSE None

\* lines 185-188
TodayRule(text) ==
    IF ContainsAny(Lower(text), TodayKeywords) THEN [type |-> "today"] ELSE None

\* the cascade without its final default: no rule, no command
Cascade_NoDefault(text) ==
    IF parse_decade_command(text) # None THEN parse_decade_command(text)
    ELSE IF DateRule(text) # None THEN DateRule(text)
    ELSE IF HelpRule(text) # None THEN HelpRule(text)
    ELSE IF StatusRule(text) # None THEN StatusRule(text)
    ELSE IF SearchRule(text) # None THEN SearchRule(text)
    ELSE IF parse_category_command(text) # None THEN parse_category_command(text)
    ELSE TodayRule(text)

\* the cascade with the date rule tried before the decade rule
Cascade_DateFirst(text) ==
    IF DateRule(text) # None THEN DateRule(text)
    ELSE IF parse_decade_command(text) # None THEN parse_decade_command(text)
    ELSE IF HelpRule(text) # None THEN HelpRule(text)
    ELSE IF StatusRule(text) # None THEN StatusRule(text)
    ELSE IF SearchRule(text) # None THEN SearchRule(text)
    ELSE IF parse_category_command(text) # None THEN parse_category_command(text)
    ELSE IF TodayRule(text) # None THEN TodayRule(text)
    ELSE [type |-> "help"]

\* lines 71-192, without the handle removal
Cascade(text) ==
    IF parse_decade_command(text) # None THEN parse_decade_command(text)
    ELSE IF DateRule(text) # None THEN DateRule(text)
    ELSE IF HelpRule(text) # None THEN HelpRule(text)
    ELSE IF StatusRule(text) # None THEN StatusRule(text)
    ELSE IF SearchRule(text) # None THEN SearchRule(text)
    ELSE IF parse_category_command(text) # None THEN parse_category_command(text)
    ELSE IF TodayRule(text) # None THEN TodayRule(text)
    ELSE [type |-> "help"]

parse_command(text, bot) == Cascade(StripBotName(text, bot))

-----------------------------------------------------------------------------
(* Specification of the parser on whole mention texts *)

MaxPhrases == 3

BotName == <<"b","o","t">>

\* the pieces mention texts are put together from
Phrases ==
    { <<"9","0">> \o KwNendai,
      <<"3", "j:gatsu", "2", "j:nichi">>,
      <<"1", "3", "j:gatsu", "2", "j:nichi">>,
      KwHelp,
      KwStatus,
      KwKensaku,
      KwCategory,
      KwKyou,
      KwToukei,
      <<" ">>, <<"a">>, <<"+">>, <<"-">>,
      KwCategory \o <<" ", "a", "+", "B", "-", "c">>,
      <<"@">> \o BotName }

PhraseSeqs == UNION {[1..n -> Phrases] : n \in 0..MaxPhrases}

Texts == {Concat(ps) : ps \in PhraseSeqs}

\* no query has been made
NoQuery ==
    /\ q_fn = "none" /\ q_include = <<>> /\ q_exclude = <<>> /\ q_limit = 0
    /\ q_range = <<0, 0>> /\ q_scan = <<>> /\ q_result = <<>>

\* the store of a router that is only asked to parse
InitDbIdle == events = <<>> /\ last_event_id = 0 /\ NoQuery

\* no message has been assembled
InitAsmIdle ==
    /\ a_fn = "none" /\ a_events = <<>> /\ a_header = <<>> /\ a_footer = <<>>
    /\ a_max = 0 /\ a_result = <<>> /\ a_command = [type |-> "None"]

HandlerTypes == {"today", "date", "search", "help", "status", "decade", "category"}

\* the router after construction, before any note is routed
\* no coroutine of route_message exists
NoCalls == <<>>

InitRouteIdle ==
    /\ note = [kind |-> "absent"]
    /\ handlers = HandlerTypes
    /\ raising = {} /\ called = <<>> /\ reply = <<>>
    /\ command_count = 0 /\ error_count = 0
    /\ calls = NoCalls

InitCmd ==
    /\ phase = "input"
    /\ content \in Texts
    /\ bot_username \in {<<>>, BotName}
    /\ command = None
    /\ entry = "none" /\ cat_expr_in = <<>>
    /\ InitDbIdle
    /\ InitAsmIdle
    /\ InitRouteIdle

\* a call parse_command(content, bot_username)
ParseCommand ==
    /\ phase = "input"
    /\ command' = parse_command(content, bot_username)
    /\ phase' = "parsed"
    /\ UNCHANGED <<content, bot_username, entry, cat_expr_in, dbvars, asmvars, rtvars>>

NextCmd == ParseCommand

SpecCmd == InitCmd /\ [][NextCmd]_vars

-----------------------------------------------------------------------------
(* Specification of the parser on texts that embed a category expression,  *)
(* one text per place where the expression block stands                     *)

MaxExprLen == 5

ExprChars == {"a", "B", "+", "-"}

Exprs == UNION {[1..n -> ExprChars] : n \in 0..MaxExprLen}

Entries == {"filter", "analysis", "decade", "search"}

\* the mention text that hands expr to the expression block of the entry
EntryText(e, expr) ==
    CASE e = "filter"   -> KwCategory \o <<" ">> \o expr
      [] e = "analysis" -> KwCategory \o KwBunseki \o <<" ">> \o expr
      [] e = "decade"   -> <<"9","0">> \o KwNendai \o <<" ">> \o KwCategory \o <<" ">> \o expr
      [] e = "search"   -> KwKensaku \o <<" ", "q", " ">> \o KwCategory \o <<" ">> \o expr

InitExpr ==
    /\ phase = "input"
    /\ entry \in Entries
    /\ cat_expr_in \in Exprs
    /\ content = EntryText(entry, cat_expr_in)
    /\ bot_username = <<>>
    /\ command = None
    /\ InitDbIdle
    /\ InitAsmIdle
    /\ InitRouteIdle

SpecExpr == InitExpr /\ [][NextCmd]_vars

Parsed == phase = "parsed"

HasTags(cmd) == "categories" \in DOMAIN cmd

\* every tag of the two lists of a command
TagsOf(cmd) ==
    {cmd.categories[i] : i \in 1..Len(cmd.categories)}
        \cup {cmd.exclude_categories[i] : i \in 1..Len(cmd.exclude_categories)}

-----------------------------------------------------------------------------
(* Claims about the command classifier *)

CommandTypeSet == {"today", "date", "search", "help", "status", "decade", "category"}

\* the text the rules see
Seen == StripBotName(content, bot_username)

RuleTypes == <<"decade", "date", "help", "status", "search", "category", "today">>

\* the recognition condition of the k-th rule, in the order of RuleTypes
Recognises(k, text) ==
    CASE k = 1 -> parse_decade_command(text) # None
      [] k = 2 -> DateRule(text) # None
      [] k = 3 -> HelpRule(text) # None
      [] k = 4 -> StatusRule(text) # None
      [] k = 5 -> SearchRule(text) # None
      [] k = 6 -> parse_category_command(text) # None
      [] k = 7 -> TodayRule(text) # None

RulesRecognising(text) == {k \in 1..7 : Recognises(k, text)}

NoRuleRecognises(text) == RulesRecognising(text) = {}

FirstRecognised(text) ==
    LET R == RulesRecognising(text)
    IN  IF R = {} THEN "help" ELSE RuleTypes[Min(R)]

HasSearchQuery(text) ==
    \E k \in 1..Len(SearchKeywords) :
        /\ Contains(Lower(text), SearchKeywords[k])
        /\ Len(Strip(StrReplace(text, SearchKeywords[k], <<>>))) > 0

-----------------------------------------------------------------------------
(* Claims about the category expression parser *)

IsTagChar(c) == c # "+" /\ c # "-"

\* tag names separated by single '+' or '-'
WellFormed(expr) ==
    /\ Len(expr) > 0
    /\ IsTagChar(expr[1]) /\ IsTagChar(expr[Len(expr)])
    /\ \A i \in 1..(Len(expr) - 1) : IsTagChar(expr[i]) \/ IsTagChar(expr[i + 1])

\* the positions where a tag name starts
TagStarts(expr) ==
    {i \in 1..Len(expr) : IsTagChar(expr[i]) /\ (i = 1 \/ ~IsTagChar(expr[i - 1]))}

TagAt(expr, i) ==
    LET stop == {j \in i..Len(expr) : ~IsTagChar(expr[j])}
    IN  SubSeq(expr, i, IF stop = {} THEN Len(expr) ELSE Min(stop) - 1)

RECURSIVE TagsAt(_, _)
\* the tag names that start at the positions P, from left to right
TagsAt(expr, P) ==
    IF P = {} THEN <<>>
    ELSE <<TagAt(expr, Min(P))>> \o TagsAt(expr, P \ {Min(P)})

FirstHyphen(expr) ==
    LET H == {i \in 1..Len(expr) : expr[i] = "-"}
    IN  IF H = {} THEN Len(expr) + 1 ELSE Min(H)

\* C3: for an expression of tag names separated by '+' and '-', the tags
\* before the first '-' are the include list, in order, and every tag after
\* it, whether it follows a '+' or a further '-', is a separate exclude tag,
\* in order; at the filter, analysis, decade and search entry points alike.
C3_SplitOnFirstHyphen ==
    (Parsed /\ WellFormed(cat_expr_in)) =>
        /\ HasTags(command)
        /\ command.categories =
               TagsAt(cat_expr_in, {i \in TagStarts(cat_expr_in) : i < FirstHyphen(cat_expr_in)})
        /\ command.exclude_categories =
               TagsAt(cat_expr_in, {i \in TagStarts(cat_expr_in) : i > FirstHyphen(cat_expr_in)})

\* 'a-B-a' (the shape of 'tech-meme-incident') has been parsed at the search entry
C3_Witness ==
    /\ Parsed
    /\ entry = "search"
    /\ cat_expr_in = <<"a", "-", "B", "-", "a">>
    /\ command.categories = << <<"a">> >>
    /\ command.exclude_categories = << <<"B">>, <<"a">> >>

\* C4: neither list produced by the parser contains an empty-string tag.
C4_NoEmptyTag ==
    (Parsed /\ HasTags(command)) => <<>> \notin TagsOf(command)

\* C5: every category filter command carries at least one non-empty tag.
C5_FilterHasTag ==
    (Parsed /\ command.type = "category" /\ command.sub_type = "filter") =>
        \E t \in TagsOf(command) : Len(t) > 0

LowerAll(tags) == [i \in 1..Len(tags) |-> Lower(tags[i])]

CategoryExprStr_IncludeOnly(categories, exclude_categories, sep) ==
    JoinWith(categories, <<"+">>)

\* the expression shown in the header of the category search result:
\* category_str = "+".join(categories), exclude_str = sep.join(exclude_categories),
\* f"{category_str}-{exclude_str}" if exclude_str else category_str
CategoryExprStr(categories, exclude_categories, sep) ==
    LET category_str == JoinWith(categories, <<"+">>)
        exclude_str  == IF Len(exclude_categories) > 0
                        THEN JoinWith(exclude_categories, <<sep>>)
                        ELSE <<>>
    IN  IF Len(exclude_str) > 0
        THEN category_str \o <<"-">> \o exclude_str
        ELSE category_str

ListSet(tags) == {tags[i] : i \in 1..Len(tags)}

\* the command parsed from the entry text that embeds the serialised command
Reparsed(cmd, sep) ==
    parse_command(EntryText(entry,
                            CategoryExprStr(cmd.categories, cmd.exclude_categories, sep)),
                  bot_username)

SameTagSets(cmd, other) ==
    /\ HasTags(other)
    /\ ListSet(other.categories) = ListSet(cmd.categories)
    /\ ListSet(other.exclude_categories) = ListSet(cmd.exclude_categories)

\* C18: for a command parsed from a well-formed expression, the include tags
\* joined by '+', followed when there are exclude tags by '-' and the exclude
\* tags joined by '+' or joined by '-', parse again to the same set of
\* include tags and the same set of exclude tags.
C18_RoundTrip ==
    (Parsed /\ WellFormed(cat_expr_in)) =>
        /\ HasTags(command)
        /\ SameTagSets(command, Reparsed(command, "+"))
        /\ SameTagSets(command, Reparsed(command, "-"))

\* 'a-B-a' has been parsed at the filter entry; its two serialisations are
\* 'a-B+a' and 'a-B-a'
C18_Witness ==
    /\ Parsed
    /\ entry = "filter"
    /\ cat_expr_in = <<"a", "-", "B", "-", "a">>
    /\ CategoryExprStr(command.categories, command.exclude_categories, "+")
           = <<"a", "-", "B", "+", "a">>
    /\ CategoryExprStr(command.categories, command.exclude_categories, "-")
           = cat_expr_in
    /\ Reparsed(command, "+").exclude_categories = << <<"B">>, <<"a">> >>

-----------------------------------------------------------------------------
(* TimelineDatabase (src/database.py): the timeline_events table and its    *)
(* category queries.  A row is a record event_id, year, month, day,         *)
(* content, categories; categories is the raw string of class names joined  *)
(* by spaces that the scraper stores.                                       *)

\* cat.replace('-', '').lower()
Normalize(cat) == Lower(StrReplace(cat, <<"-">>, <<>>))

\* [cat.replace('-', '').lower() for cat in cats]
NormalizeAll(cats) == [i \in 1..Len(cats) |-> Normalize(cats[i])]

RECURSIVE SelectNonBlank(_)
\* [cat for cat in cats if cat.strip()]
SelectNonBlank(cats) ==
    IF Len(cats) = 0 THEN <<>>
    ELSE IF Len(Strip(Head(cats))) > 0
         THEN <<Head(cats)>> \o SelectNonBlank(Tail(cats))
         ELSE SelectNonBlank(Tail(cats))

\* x in xs
InList(x, xs) == \E i \in 1..Len(xs) : xs[i] = x

RECURSIVE RowsAt(_, _)
\* the rows at the positions I, in the order of the list
RowsAt(rows, I) ==
    IF I = {} THEN <<>>
    ELSE <<rows[Min(I)]>> \o RowsAt(rows, I \ {Min(I)})

\* [row for row in rows if row in kept], kept the set of rows that pass the test
SelectRows(rows, kept) == RowsAt(rows, {i \in 1..Len(rows) : rows[i] \in kept})

\* the rows of a list, as a set
RowSet(rows) == {rows[i] : i \in 1..Len(rows)}

\* rows[:n] for n >= 0, and the rows LIMIT n leaves
Take(rows, n) == SubSeq(rows, 1, IF n < Len(rows) THEN n ELSE Len(rows))

\* LOWER(REPLACE(categories, '-', '')) LIKE '%cat%': the pattern occurs in the
\* normalized column (LIKE folds ASCII case; the alphabet has no % or _)
SqlLike(categories, cat) == Contains(Lower(StrReplace(categories, <<"-">>, <<>>)), Lower(cat))

\* the WHERE clause without its NOT LIKE conditions
WhereClause_IncludeOnly(row, normalized_categories, normalized_exclude) ==
    \A i \in 1..Len(normalized_categories) :
        SqlLike(row.categories, normalized_categories[i])

\* the WHERE clause built by get_events_by_categories and get_cooccurring_categories
WhereClause(row, normalized_categories, normalized_exclude) ==
    /\ \A i \in 1..Len(normalized_categories) :
           SqlLike(row.categories, normalized_categories[i])
    /\ \A i \in 1..Len(normalized_exclude) :
           ~SqlLike(row.categories, normalized_exclude[i])

\* (year, month, day) of a before or equal to (year, month, day) of b
DateLeq(a, b) ==
    \/ a.year < b.year
    \/ a.year = b.year /\ a.month < b.month
    \/ a.year = b.year /\ a.month = b.month /\ a.day <= b.day

IndexOrders(n) ==
    {f \in [1..n -> 1..n] : \A i, j \in 1..n : i # j => f[i] # f[j]}

\* SELECT without ORDER BY: SQL leaves the order of the rows to the engine
\* (rowid order for a table scan, year order when idx_year is used)
ScanOrders(rows) ==
    {[i \in 1..Len(rows) |-> rows[perm[i]]] : perm \in IndexOrders(Len(rows))}

\* ORDER BY year ASC, month ASC, day ASC: the orders of the rows the engine
\* may return (rows of equal date in any order)
OrderByDate(rows) ==
    {ordered \in ScanOrders(rows) :
        \A i \in 1..(Len(ordered) - 1) : DateLeq(ordered[i], ordered[i + 1])}

RECURSIVE SortByDate(_)
\* list.sort(key=(year, month, day)): stable insertion into sorted order
SortByDate(rows) ==
    IF Len(rows) = 0 THEN <<>>
    ELSE LET rest == SortByDate(SubSeq(rows, 1, Len(rows) - 1))
             last == rows[Len(rows)]
             k    == Cardinality({i \in 1..Len(rest) : DateLeq(rest[i], last)})
         IN  SubSeq(rest, 1, k) \o <<last>> \o SubSeq(rest, k + 1, Len(rest))

\* has_all_categories(ev): the normalized query tags against the stored words
has_all_categories(ev, normalized_categories) ==
    \A i \in 1..Len(normalized_categories) :
        InList(normalized_categories[i], SplitWs(ev.categories))

\* has_excluded(ev)
has_excluded(ev, normalized_exclude) ==
    \E i \in 1..Len(normalized_exclude) :
        InList(normalized_exclude[i], SplitWs(ev.categories))

\* get_events_by_categories without the early return for an empty filter:
\* the query then runs with WHERE 1=1
get_events_by_categories_NoGuard(ordered, categories, exclude_categories, limit) ==
    LET normalized_categories == NormalizeAll(categories)
        normalized_exclude    == NormalizeAll(exclude_categories)
        where(row) == WhereClause(row, normalized_categories, normalized_exclude)
        rows  == Take(SelectRows(ordered, {row \in RowSet(ordered) : where(row)}), limit)
        inc(ev) == has_all_categories(ev, normalized_categories)
        exc(ev) == ~has_excluded(ev, normalized_exclude)
        evs1  == IF Len(normalized_categories) > 0 THEN SelectRows(rows, {ev \in RowSet(rows) : inc(ev)}) ELSE rows
    IN  IF Len(normalized_exclude) > 0 THEN SelectRows(evs1, {ev \in RowSet(evs1) : exc(ev)}) ELSE evs1

\* get_events_by_categories, given the rows in the order the engine returns them
get_events_by_categories(ordered, categories, exclude_categories, limit) ==
    LET normalized_categories == NormalizeAll(categories)
        normalized_exclude    == NormalizeAll(exclude_categories)
        where(row) == WhereClause(row, normalized_categories, normalized_exclude)
        rows  == Take(SelectRows(ordered, {row \in RowSet(ordered) : where(row)}), limit)
        inc(ev) == has_all_categories(ev, normalized_categories)
        exc(ev) == ~has_excluded(ev, normalized_exclude)
        evs1  == IF Len(normalized_categories) > 0 THEN SelectRows(rows, {ev \in RowSet(rows) : inc(ev)}) ELSE rows
        evs2  == IF Len(normalized_exclude) > 0 THEN SelectRows(evs1, {ev \in RowSet(evs1) : exc(ev)}) ELSE evs1
    IN  IF Len(normalized_categories) = 0 /\ Len(normalized_exclude) = 0
        THEN <<>>
        ELSE evs2

\* _check_categories
check_categories(event, categories, exclude_categories) ==
    LET normalized_categories == NormalizeAll(SelectNonBlank(categories))
        normalized_exclude    == NormalizeAll(SelectNonBlank(exclude_categories))
        event_cats_normalized == NormalizeAll(SplitWs(event.categories))
    IN  /\ \A i \in 1..Len(normalized_categories) :
               InList(normalized_categories[i], event_cats_normalized)
        /\ ~\E i \in 1..Len(normalized_exclude) :
               InList(normalized_exclude[i], event_cats_normalized)

\* the loop of get_events_by_decade_and_categories: append the rows that
\* are accepted (kept) and break once len(filtered_events) >= limit (the test
\* follows the append, so one row is kept even for a limit below 1)
FilterUpTo(rows, kept, limit) ==
    Take(SelectRows(rows, kept), IF limit < 1 THEN 1 ELSE limit)

\* get_events_by_decade_and_categories, given the table rows in scan order
get_events_by_decade_and_categories(table, start_year, end_year, categories, exclude_categories, limit) ==
    LET between(row) == start_year <= row.year /\ row.year <= end_year
        rows == SelectRows(table, {row \in RowSet(table) : between(row)})
        keep(row) == check_categories(row, categories, exclude_categories)
    IN  IF Len(categories) = 0 THEN <<>>
        ELSE SortByDate(FilterUpTo(rows, {row \in RowSet(rows) : keep(row)}, limit))

RECURSIVE CountLoop(_, _, _)
\* the counting loop of get_cooccurring_categories over the tags of all
\* selected rows: counts is the dict, in insertion order
CountLoop(cats, skip, counts) ==
    IF Len(cats) = 0 THEN counts
    ELSE LET cat == Head(cats)
             at  == {i \in 1..Len(counts) : counts[i].tag = cat}
         IN  IF InList(cat, skip) THEN CountLoop(Tail(cats), skip, counts)
             ELSE IF at = {}
             THEN CountLoop(Tail(cats), skip, Append(counts, [tag |-> cat, count |-> 1]))
             ELSE CountLoop(Tail(cats), skip,
                            [counts EXCEPT ![Min(at)].count = @ + 1])

RECURSIVE SortByCountDesc(_)
\* sorted(items, key=count, reverse=True): stable, equal counts keep their order
SortByCountDesc(items) ==
    IF Len(items) = 0 THEN <<>>
    ELSE LET rest == SortByCountDesc(SubSeq(items, 1, Len(items) - 1))
             last == items[Len(items)]
             k    == Cardinality({i \in 1..Len(rest) : rest[i].count >= last.count})
         IN  SubSeq(rest, 1, k) \o <<last>> \o SubSeq(rest, k + 1, Len(rest))

RECURSIVE RowTags(_)
\* the normalized tags of the rows, row after row
RowTags(rows) ==
    IF Len(rows) = 0 THEN <<>>
    ELSE NormalizeAll(SplitWs(Head(rows).categories)) \o RowTags(Tail(rows))

\* get_cooccurring_categories, given the table rows in scan order
get_cooccurring_categories(table, categories, exclude_categories, limit) ==
    LET normalized_categories == NormalizeAll(SelectNonBlank(categories))
        normalized_exclude    == NormalizeAll(SelectNonBlank(exclude_categories))
        where(row) == WhereClause(row, normalized_categories, normalized_exclude)
        rows == SelectRows(table, {row \in RowSet(table) : where(row)})
        cooccur_counts == CountLoop(RowTags(rows),
                                    normalized_categories \o normalized_exclude, <<>>)
    IN  IF Len(normalized_categories) = 0 /\ Len(normalized_exclude) = 0
        THEN <<>>
        ELSE Take(SortByCountDesc(cooccur_counts), limit)

-----------------------------------------------------------------------------
(* Specification of the event store: events are added, queries are made *)

MaxEvents == 2

MaxQueryTags == 2

\* years of the events, one for each row the table may hold
Years == 2000..(2000 + MaxEvents - 1)

\* raw values of the categories column: 'ds t s', 'ds t', 'D-s t', 't', ''
CategoryStrings ==
    { <<"d","s"," ","t"," ","s">>,
      <<"d","s"," ","t">>,
      <<"D","-","s"," ","t">>,
      <<"t">>,
      <<>> }

\* tags a caller passes: 'ds', 's', 't', 'D-s'
QueryTags == { <<"d","s">>, <<"s">>, <<"t">>, <<"D","-","s">> }

TagLists(n) == UNION {[1..k -> QueryTags] : k \in 0..n}

\* (categories, exclude_categories) with at most MaxQueryTags tags in all
Queries ==
    {q \in TagLists(MaxQueryTags) \X TagLists(MaxQueryTags) :
        Len(q[1]) + Len(q[2]) <= MaxQueryTags}

\* 1 cuts a result short, 100 is the default of the methods
Limits == {1, 100}

\* a decade that holds every event, and a range of one year
Ranges == {<<2000, 2009>>, <<2001, 2001>>}

InitDb ==
    /\ phase = "store"
    /\ events = <<>>
    /\ last_event_id = 0
    /\ NoQuery
    /\ content = <<>> /\ bot_username = <<>> /\ command = None
    /\ entry = "none" /\ cat_expr_in = <<>>
    /\ InitAsmIdle
    /\ InitRouteIdle

\* add_event(event): INSERT OR REPLACE under UNIQUE(year, month, day, content)
AddEvent ==
    \E y \in Years, cats \in CategoryStrings :
        LET same(row) == row.year = y /\ row.month = 1 /\ row.day = 1 /\ row.content = "c"
            kept(row) == ~same(row)
            new == [event_id |-> last_event_id + 1, year |-> y, month |-> 1, day |-> 1,
                    content |-> "c", categories |-> cats]
        IN  /\ phase = "store"
            /\ last_event_id < MaxEvents
            /\ events' = Append(SelectRows(events, {row \in RowSet(events) : kept(row)}), new)
            /\ last_event_id' = last_event_id + 1
            /\ UNCHANGED <<phase, q_fn, q_include, q_exclude, q_limit, q_range,
                           q_scan, q_result, cmdvars, asmvars, rtvars>>

\* a call get_events_by_categories(categories, exclude_categories, limit)
QueryByCategories ==
    \E q \in Queries, limit \in Limits, ordered \in OrderByDate(events) :
        /\ phase = "store"
        /\ q_fn' = "get_events_by_categories"
        /\ q_include' = q[1] /\ q_exclude' = q[2] /\ q_limit' = limit
        /\ q_range' = <<0, 0>>
        /\ q_scan' = ordered
        /\ q_result' = get_events_by_categories(ordered, q[1], q[2], limit)
        /\ phase' = "queried"
        /\ UNCHANGED <<events, last_event_id, cmdvars, asmvars, rtvars>>

\* a call get_cooccurring_categories(categories, exclude_categories, limit)
QueryCooccurring ==
    \E q \in Queries, limit \in Limits, scan \in ScanOrders(events) :
        /\ phase = "store"
        /\ q_fn' = "get_cooccurring_categories"
        /\ q_include' = q[1] /\ q_exclude' = q[2] /\ q_limit' = limit
        /\ q_range' = <<0, 0>>
        /\ q_scan' = scan
        /\ q_result' = get_cooccurring_categories(scan, q[1], q[2], limit)
        /\ phase' = "queried"
        /\ UNCHANGED <<events, last_event_id, cmdvars, asmvars, rtvars>>

\* a call get_events_by_decade_and_categories(start_year, end_year, ...)
QueryByDecade ==
    \E q \in Queries, limit \in Limits, range \in Ranges, scan \in ScanOrders(events) :
        /\ phase = "store"
        /\ q_fn' = "get_events_by_decade_and_categories"
        /\ q_include' = q[1] /\ q_exclude' = q[2] /\ q_limit' = limit
        /\ q_range' = range
        /\ q_scan' = scan
        /\ q_result' = get_events_by_decade_and_categories(scan, range[1], range[2],
                                                           q[1], q[2], limit)
        /\ phase' = "queried"
        /\ UNCHANGED <<events, last_event_id, cmdvars, asmvars, rtvars>>

\* the caller has used the returned value
Return ==
    /\ phase = "queried"
    /\ phase' = "store"
    /\ q_fn' = "none" /\ q_include' = <<>> /\ q_exclude' = <<>> /\ q_limit' = 0
    /\ q_range' = <<0, 0>> /\ q_scan' = <<>> /\ q_result' = <<>>
    /\ UNCHANGED <<events, last_event_id, cmdvars, asmvars, rtvars>>

NextDb == AddEvent \/ QueryByCategories \/ QueryCooccurring \/ QueryByDecade \/ Return

SpecDb == InitDb /\ [][NextDb]_vars

-----------------------------------------------------------------------------
(* Claims about the category queries of the store *)

Queried(fn) == phase = "queried" /\ q_fn = fn

\* the tags of an event, compared after lower-casing and hyphen removal
NormTags(ev) ==
    {Normalize(SplitWs(ev.categories)[i]) : i \in 1..Len(SplitWs(ev.categories))}

NormSet(tags) == {Normalize(tags[i]) : i \in 1..Len(tags)}

\* the exact-tag rule: every include tag is a tag of the event, no exclude tag is
Matches(ev, include, exclude) ==
    /\ NormSet(include) \subseteq NormTags(ev)
    /\ NormSet(exclude) \cap NormTags(ev) = {}

Returned == {q_result[i] : i \in 1..Len(q_result)}

Stored == {events[i] : i \in 1..Len(events)}

TagDsTS == <<"d","s"," ","t"," ","s">>

\* C7: every event returned by get_events_by_categories carries every
\* include tag and no exclude tag (tags compared after normalization); an
\* event tagged {ds, t, s} is returned for include = [ds, t] without exclude
\* when the limit is not reached, and is not returned for exclude = [s].
C7_ReturnedEventsMatch ==
    Queried("get_events_by_categories") =>
        /\ \A ev \in Returned : ev \in Stored /\ Matches(ev, q_include, q_exclude)
        /\ (/\ q_include = << <<"d","s">>, <<"t">> >>
            /\ q_exclude = <<>>
            /\ q_limit >= Len(events))
               => \A ev \in Stored : ev.categories = TagDsTS => ev \in Returned
        /\ (/\ q_include = << <<"d","s">>, <<"t">> >>
            /\ q_exclude = << <<"s">> >>)
               => \A ev \in Stored : ev.categories = TagDsTS => ev \notin Returned

\* an event was returned for a query with an include tag and an exclude tag
\* while another event carried the exclude tag
C7_Witness ==
    /\ Queried("get_events_by_categories")
    /\ Len(q_include) > 0 /\ Len(q_exclude) > 0
    /\ Len(q_result) = 1
    /\ \E ev \in Stored : NormSet(q_exclude) \cap NormTags(ev) # {}

\* C8: with an empty exclude list and the limit not reached,
\* get_events_by_categories(include) returns every event whose stored tags,
\* after normalization, contain every normalized include tag.
C8_StoredSpellingIgnored ==
    (/\ Queried("get_events_by_categories")
     /\ Len(q_include) > 0 /\ q_exclude = <<>>
     /\ q_limit >= Len(events))
        => \A ev \in Stored : Matches(ev, q_include, <<>>) => ev \in Returned

\* the stored spelling of every tag of the event is the normalized one
StoredNormalized(ev) ==
    \A i \in 1..Len(SplitWs(ev.categories)) :
        Normalize(SplitWs(ev.categories)[i]) = SplitWs(ev.categories)[i]

CountedTags == {q_result[i].tag : i \in 1..Len(q_result)}

\* C9: an event (stored in normalized spelling) that carries every include
\* tag and none of whose tags equals an exclude tag is returned by
\* get_events_by_categories and counted by get_cooccurring_categories, also
\* when one of its tags contains an exclude tag as a substring.
C9_ExcludeIsExact ==
    /\ (Queried("get_events_by_categories") /\ Len(q_include) > 0
            /\ q_limit >= Len(events))
           => \A ev \in Stored :
                  (StoredNormalized(ev) /\ Matches(ev, q_include, q_exclude))
                      => ev \in Returned
    /\ (Queried("get_cooccurring_categories") /\ Len(q_include) > 0
            /\ q_limit >= 100)
           => \A ev \in Stored :
                  (StoredNormalized(ev) /\ Matches(ev, q_include, q_exclude))
                      => NormTags(ev) \ (NormSet(q_include) \cup NormSet(q_exclude))
                             \subseteq CountedTags

\* C10: a filter whose include and exclude lists are both empty yields no
\* result: get_events_by_categories([], []) returns no event,
\* get_cooccurring_categories([], []) an empty mapping, and
\* get_events_by_decade_and_categories with empty categories no event.
C10_EmptyFilterYieldsNothing ==
    /\ (Queried("get_events_by_categories") /\ q_include = <<>> /\ q_exclude = <<>>)
           => q_result = <<>>
    /\ (Queried("get_cooccurring_categories") /\ q_include = <<>> /\ q_exclude = <<>>)
           => q_result = <<>>
    /\ (Queried("get_events_by_decade_and_categories") /\ q_include = <<>>)
           => q_result = <<>>

\* the empty filter has been put to a table that holds tagged events
C10_Witness ==
    /\ Queried("get_events_by_categories")
    /\ q_include = <<>> /\ q_exclude = <<>>
    /\ Len(events) = 2
    /\ \A ev \in Stored : Len(ev.categories) > 0

\* the events that match the query under the exact-tag rule
Matching == {ev \in Stored : Matches(ev, q_include, q_exclude)}

\* C11: the count get_cooccurring_categories reports for a tag equals the
\* number of events that match the expression under the exact-tag AND/NOT
\* rule and carry the tag, and no include or exclude tag is reported.
C11_CountsExactMatches ==
    Queried("get_cooccurring_categories") =>
        \A i \in 1..Len(q_result) :
            /\ q_result[i].tag \notin NormSet(q_include) \cup NormSet(q_exclude)
            /\ q_result[i].count =
                   Cardinality({ev \in Matching : q_result[i].tag \in NormTags(ev)})

\* the rows the WHERE clause of get_cooccurring_categories selects, in scan order
SelectedTags ==
    LET inc == NormalizeAll(SelectNonBlank(q_include))
        exc == NormalizeAll(SelectNonBlank(q_exclude))
    IN  RowTags(SelectRows(q_scan, {row \in RowSet(q_scan) : WhereClause(row, inc, exc)}))

FirstSeen(tag) == Min({i \in 1..Len(SelectedTags) : SelectedTags[i] = tag})

\* how often the tag occurs on the selected rows
TimesSeen(tag) == Cardinality({i \in 1..Len(SelectedTags) : SelectedTags[i] = tag})

\* descending counts, ties in first-seen order
DescendingFirstSeen ==
    \A i, j \in 1..Len(q_result) :
        i < j => /\ q_result[i].count >= q_result[j].count
                 /\ (q_result[i].count = q_result[j].count
                        => FirstSeen(q_result[i].tag) < FirstSeen(q_result[j].tag))

\* no tag with a count strictly greater than that of a returned tag is left out
NoGreaterOmitted ==
    \A k \in 1..Len(SelectedTags) :
        LET t == SelectedTags[k]
        IN  (/\ t \notin NormSet(q_include) \cup NormSet(q_exclude)
             /\ t \notin CountedTags)
                => \A i \in 1..Len(q_result) : TimesSeen(t) <= q_result[i].count

\* an empty mapping when no event matches the expression
EmptyWhenNoMatch == Matching = {} => q_result = <<>>

\* C12: get_cooccurring_categories returns at most limit tags, ordered by
\* descending count with ties in first-seen order, never omitting a tag
\* whose count is strictly greater than that of a returned tag, and returns
\* an empty mapping when no event matches the expression.
C12_TopTagsOrEmpty ==
    Queried("get_cooccurring_categories") =>
        /\ Len(q_result) <= q_limit
        /\ DescendingFirstSeen
        /\ NoGreaterOmitted
        /\ EmptyWhenNoMatch

-----------------------------------------------------------------------------
(* TimelineDataService._truncate_message_with_events (src/data_service.py): *)
(* the assembly of a reply from formatted events under a character budget.  *)

\* the string '\n'
NL == <<"\n">>

\* c * n
Repeat(c, n) == [i \in 1..n |-> c]

RECURSIVE Str(_)
\* str(n) of an int n >= 0, as used by an f-string
Str(n) ==
    IF n < 10 THEN <<Digits[n + 1]>>
    ELSE Str(n \div 10) \o <<Digits[(n % 10) + 1]>>

\* s[:n], n of either sign
SliceTo(s, n) ==
    IF n >= 0 THEN SubSeq(s, 1, IF n < Len(s) THEN n ELSE Len(s))
    ELSE SubSeq(s, 1, IF Len(s) + n > 0 THEN Len(s) + n ELSE 0)

\* '...'
Ellipsis == <<".", ".", ".">>

\* f"（他に{remaining}件あります）"
RemainderNotice(remaining) ==
    <<"f:(", "j:hoka", "h:ni">> \o Str(remaining)
        \o <<"j:ken", "h:a", "h:ri", "h:ma", "h:su", "f:)">>

RECURSIVE SumChars(_)
\* sum(len(part) + 1 for part in message_parts)
SumChars(parts) ==
    IF Len(parts) = 0 THEN 0 ELSE Len(Head(parts)) + 1 + SumChars(Tail(parts))

RECURSIVE FillLoop_Continue(_, _, _, _, _, _)
\* the loop with continue in place of break: an item that does not fit is
\* skipped and later items are still tried
FillLoop_Continue(event_list, formatter_func, message_parts, current_chars, displayed_count, max_chars) ==
    IF Len(event_list) = 0
    THEN [message_parts |-> message_parts, displayed_count |-> displayed_count,
          current_chars |-> current_chars]
    ELSE LET formatted_event == formatter_func[Head(event_list)]
             event_chars     == Len(formatted_event) + 1
         IN  IF current_chars + event_chars > max_chars
             THEN FillLoop_Continue(Tail(event_list), formatter_func, message_parts,
                                    current_chars, displayed_count, max_chars)
             ELSE FillLoop_Continue(Tail(event_list), formatter_func,
                                    message_parts \o <<formatted_event, <<>>>>,
                                    current_chars + event_chars, displayed_count + 1,
                                    max_chars)

RECURSIVE FillLoop(_, _, _, _, _, _)
\* for event in events: ... break / append; gives message_parts, displayed_count
\* and current_chars after the loop
FillLoop(event_list, formatter_func, message_parts, current_chars, displayed_count, max_chars) ==
    IF Len(event_list) = 0
    THEN [message_parts |-> message_parts, displayed_count |-> displayed_count,
          current_chars |-> current_chars]
    ELSE LET formatted_event == formatter_func[Head(event_list)]
             event_chars     == Len(formatted_event) + 1
         IN  IF current_chars + event_chars > max_chars
             THEN [message_parts |-> message_parts, displayed_count |-> displayed_count,
                   current_chars |-> current_chars]
             ELSE FillLoop(Tail(event_list), formatter_func,
                           message_parts \o <<formatted_event, <<>>>>,
                           current_chars + event_chars, displayed_count + 1, max_chars)

\* displayed_count after the loop
DisplayedCount(event_list, formatter_func, header_parts, max_chars) ==
    FillLoop(event_list, formatter_func, header_parts, SumChars(header_parts), 0,
             max_chars).displayed_count

\* the string joined from message_parts, before the final length check
JoinedMessage(event_list, formatter_func, header_parts, footer_parts, max_chars) ==
    LET filled == FillLoop(event_list, formatter_func, header_parts,
                           SumChars(header_parts), 0, max_chars)
        parts1 == filled.message_parts
        parts2 == IF Len(parts1) > 0 /\ parts1[Len(parts1)] = <<>>
                  THEN SubSeq(parts1, 1, Len(parts1) - 1) ELSE parts1
        parts3 == parts2 \o footer_parts
        remaining == Len(event_list) - filled.displayed_count
        parts4 == IF filled.displayed_count < Len(event_list)
                  THEN parts3 \o << <<>>, RemainderNotice(remaining) >>
                  ELSE parts3
    IN  JoinWith(parts4, NL)

\* the method without its final length check
truncate_message_with_events_Unchecked(event_list, formatter_func, header_parts, footer_parts, max_chars) ==
    IF Len(event_list) = 0 THEN JoinWith(header_parts \o footer_parts, NL)
    ELSE JoinedMessage(event_list, formatter_func, header_parts, footer_parts, max_chars)

\* the method with the final length check applied to the empty case as well
truncate_message_with_events_AlwaysChecked(event_list, formatter_func, header_parts, footer_parts, max_chars) ==
    LET result == IF Len(event_list) = 0 THEN JoinWith(header_parts \o footer_parts, NL)
                  ELSE JoinedMessage(event_list, formatter_func, header_parts,
                                     footer_parts, max_chars)
    IN  IF Len(result) > max_chars
        THEN SliceTo(result, max_chars - 3) \o Ellipsis ELSE result

\* _truncate_message_with_events(events, formatter_func, header_parts, footer_parts, max_chars)
truncate_message_with_events(event_list, formatter_func, header_parts, footer_parts, max_chars) ==
    IF Len(event_list) = 0 THEN JoinWith(header_parts \o footer_parts, NL)
    ELSE LET result == JoinedMessage(event_list, formatter_func, header_parts,
                                     footer_parts, max_chars)
         IN  IF Len(result) > max_chars
             THEN SliceTo(result, max_chars - 3) \o Ellipsis
             ELSE result

-----------------------------------------------------------------------------
(* Specification of the message assembly: one call with any items, header, *)
(* footer and budget                                                        *)

MaxItems == 3

MaxChars == 16

\* the items are the lengths of their formatted lines
ItemLens == {0, 1, 9, 20}

\* a formatter: the item n gives a line of n characters
LineOf == [n \in ItemLens |-> Repeat("x", n)]

ItemSeqs == UNION {[1..k -> ItemLens] : k \in 0..MaxItems}

\* header_parts: none, a title, a title and a blank line, a long title
Headers == { <<>>, << <<"H">> >>, << <<"H">>, <<>> >>, << Repeat("H", 6) >> }

\* footer_parts: none, one line
Footers == { <<>>, << <<"F", "F">> >> }

Budgets == 0..MaxChars

InitAsm ==
    /\ phase = "compose"
    /\ content = <<>> /\ bot_username = <<>> /\ command = None
    /\ entry = "none" /\ cat_expr_in = <<>>
    /\ InitDbIdle
    /\ InitAsmIdle
    /\ InitRouteIdle

\* a call _truncate_message_with_events(events, formatter_func, header_parts,
\* footer_parts, max_chars) of the data service
Assemble ==
    \E items \in ItemSeqs, header \in Headers, footer \in Footers, max_chars \in Budgets :
        /\ phase = "compose"
        /\ a_fn' = "data_service"
        /\ a_events' = items
        /\ a_header' = header
        /\ a_footer' = footer
        /\ a_max' = max_chars
        /\ a_result' = truncate_message_with_events(items, LineOf, header, footer, max_chars)
        /\ phase' = "composed"
        /\ UNCHANGED <<cmdvars, dbvars, a_command, rtvars>>

NextAsm == Assemble

SpecAsm == InitAsm /\ [][NextAsm]_vars

-----------------------------------------------------------------------------
(* Claims about the message assembly *)

Assembled == phase = "composed" /\ a_fn = "data_service"

\* the number of items the assembler included
Included == DisplayedCount(a_events, LineOf, a_header, a_max)

EndsWith(s, suffix) ==
    Len(suffix) <= Len(s) /\ SubSeq(s, Len(s) - Len(suffix) + 1, Len(s)) = suffix

\* C13 as stated: for every item sequence, the empty one included, and
\* max_chars >= 3 the returned string has at most max_chars characters.
C13_AlwaysWithinBudget ==
    (Assembled /\ a_max >= 3) => Len(a_result) <= a_max

\* C13 amended: for a non-empty item sequence and max_chars >= 3 the
\* returned string has at most max_chars characters; for the empty sequence
\* its length is that of header and footer joined, whatever max_chars is.
C13_WithinBudgetIfItems ==
    (Assembled /\ a_max >= 3) =>
        /\ Len(a_events) > 0 => Len(a_result) <= a_max
        /\ Len(a_events) = 0 =>
               Len(a_result) = Len(JoinWith(a_header \o a_footer, NL))

\* the joined message of a non-empty item sequence was longer than the budget
\* and has been cut to it
C13_Witness ==
    /\ Assembled /\ a_max >= 3 /\ Len(a_events) > 0
    /\ Len(JoinedMessage(a_events, LineOf, a_header, a_footer, a_max)) > a_max
    /\ Len(a_result) = a_max
    /\ EndsWith(a_result, Ellipsis)

\* C14: whenever the assembler includes fewer items than it was given, the
\* returned string has at most max_chars characters and ends with the
\* remainder notice stating len(items) minus the number of included items.
C14_NoticeEndsMessage ==
    (Assembled /\ a_max >= 3 /\ Included < Len(a_events)) =>
        /\ Len(a_result) <= a_max
        /\ EndsWith(a_result, RemainderNotice(Len(a_events) - Included))

\* C15: for an empty item sequence the assembler returns the header lines
\* followed by the footer lines joined by newlines, for every header, footer
\* and max_chars.
C15_EmptyItems ==
    (Assembled /\ Len(a_events) = 0) => a_result = JoinWith(a_header \o a_footer, NL)

\* header and footer have been returned for no items although they are
\* longer than max_chars
C15_Witness ==
    /\ Assembled /\ Len(a_events) = 0
    /\ Len(a_header) > 0 /\ Len(a_footer) > 0
    /\ Len(a_result) > a_max

-----------------------------------------------------------------------------
(* The replies of the search, decade and category handlers (src/handlers):  *)
(* a message assembled under the length limit of MessageLimits, then the    *)
(* link to the timeline site.  Fixed Japanese wording whose characters play *)
(* no part is written as a run of "w" of the same length.                   *)

\* MessageLimits.MAX_LENGTH
MAX_LENGTH == 3000

\* MessageLimits.MAX_MESSAGE_LENGTH
MAX_MESSAGE_LENGTH == 3000

\* MessageLimits.TRUNCATE_LENGTH
TRUNCATE_LENGTH == 2997

\* n characters of fixed wording
Wording(n) == Repeat("w", n)

\* f"{n:02d}"
Pad2(n) == IF n < 10 THEN <<"0">> \o Str(n) ELSE Str(n)

\* TimelineEvent.get_date_str: f"{month:02d}月{day:02d}日"
get_date_str(ev) == Pad2(ev.month) \o <<"j:gatsu">> \o Pad2(ev.day) \o <<"j:nichi">>

\* repr of a list of str, as an f-string prints it: ['a', 'b']
ReprList(tags) ==
    <<"[">> \o JoinWith([i \in 1..Len(tags) |-> <<"'">> \o tags[i] \o <<"'">>],
                        <<",", " ">>) \o <<"]">>

\* s.find(pat): the index (from 0) of the first occurrence, -1 when none
Find(s, pat) == IF Occurrences(s, pat) = {} THEN -1 ELSE Min(Occurrences(s, pat)) - 1

\* the characters urllib.parse.quote leaves as they are
Unreserved ==
    {UpperChars[i] : i \in 1..26} \cup {LowerChars[i] : i \in 1..26}
        \cup {Digits[i] : i \in 1..10} \cup {"_", ".", "-", "~", "/"}

\* urllib.parse.quote of one character: %XX for each byte of its UTF-8
\* encoding (one byte for ASCII, three for kana, kanji and the ideographic
\* space; the hex digits of the three-byte characters are written "X")
QuoteChar(c) ==
    IF c \in Unreserved THEN <<c>>
    ELSE IF c = " " THEN <<"%", "2", "0">>
    ELSE IF c = "+" THEN <<"%", "2", "B">>
    ELSE IF c = "@" THEN <<"%", "4", "0">>
    ELSE IF c = "*" THEN <<"%", "2", "A">>
    ELSE <<"%", "X", "X", "%", "X", "X", "%", "X", "X">>

\* urllib.parse.quote(search_param)
Quote(s) == Concat([i \in 1..Len(s) |-> QuoteChar(s[i])])

\* base_url of generate_timeline_url
BaseUrl ==
    <<"h", "t", "t", "p", "s", ":", "/", "/", "y", "u", "i", "n", "o", "i",
      "d", ".", "n", "e", "o", "c", "i", "t", "i", "e", "s", ".", "o", "r",
      "g", "/", "t", "x", "t", "/", "m", "y", "_", "d", "s", "n", "s", "_",
      "t", "i", "m", "e", "l", "i", "n", "e">>

\* raise ValueError(...), in place of a returned URL
ValueError == <<"raise ValueError">>

\* generate_timeline_url(search_type, **kwargs) for the search types the three
\* handlers pass; param is query or start_year
generate_timeline_url(search_type, param) ==
    IF search_type = "search"
    THEN IF Len(param) = 0 THEN ValueError
         ELSE BaseUrl \o <<"?", "s", "e", "a", "r", "c", "h", "=">> \o Quote(param)
    ELSE IF search_type = "decade"
    THEN BaseUrl \o <<"?", "s", "e", "a", "r", "c", "h", "=">>
             \o Quote(Str(param) \o KwNendai)
    ELSE ValueError

\* BaseHandler._add_timeline_url: f"{message}\n\n[年表はこちら]({timeline_url})",
\* the message itself when the URL cannot be generated
add_timeline_url(message, search_type, param) ==
    LET timeline_url == generate_timeline_url(search_type, param)
    IN  IF timeline_url = ValueError THEN message
        ELSE message \o NL \o NL \o <<"[">> \o KwNenpyou
                 \o <<"h:ha", "h:ko", "h:chi", "h:ra", "]", "(">>
                 \o timeline_url \o <<")">>

\* f"**{event.year}年**{event.get_date_str()}　{event.content}\n"
EventLine(ev) ==
    <<"*", "*">> \o Str(ev.year) \o <<"j:nen", "*", "*">> \o get_date_str(ev)
        \o <<"zsp">> \o ev.content \o NL

RECURSIVE TruncateLoop(_, _, _)
\* for event in events: ... break / truncated_message += event_line
TruncateLoop(event_list, truncated_message, included_count) ==
    IF Len(event_list) = 0
    THEN [truncated_message |-> truncated_message, included_count |-> included_count]
    ELSE LET event_line == EventLine(Head(event_list))
         IN  IF Len(truncated_message \o event_line) > TRUNCATE_LENGTH
             THEN [truncated_message |-> truncated_message,
                   included_count |-> included_count]
             ELSE TruncateLoop(Tail(event_list), truncated_message \o event_line,
                               included_count + 1)

\* '**結果件数**' (its characters are searched for)
KwKekkaKensuu == <<"*", "*", "j:ketsu", "j:ka", "j:ken", "j:suu", "*", "*">>

\* f"\n... 他{remaining}件"
OthersNotice(remaining) ==
    NL \o Ellipsis \o <<" ", "j:hoka">> \o Str(remaining) \o <<"j:ken">>

\* header_end of CategoryHandler._truncate_message_with_events
HeaderEnd(message) ==
    IF Find(message, NL \o NL \o KwKekkaKensuu) # -1
    THEN Find(message, NL \o NL \o KwKekkaKensuu)
    ELSE Find(message, NL \o NL)

\* included_count of CategoryHandler._truncate_message_with_events
IncludedCount(message, event_list) ==
    TruncateLoop(event_list, SliceTo(message, HeaderEnd(message)) \o NL \o NL,
                 0).included_count

\* CategoryHandler._truncate_message_with_events(message, events, total_count)
category_truncate_message(message, event_list, total_count) ==
    LET header_end == HeaderEnd(message)
        header     == SliceTo(message, header_end)
        looped     == TruncateLoop(event_list, header \o NL \o NL, 0)
        remaining  == total_count - looped.included_count
    IN  IF header_end = -1 THEN SliceTo(message, TRUNCATE_LENGTH) \o Ellipsis
        ELSE IF remaining > 0
        THEN looped.truncated_message \o OthersNotice(remaining)
        ELSE looped.truncated_message

\* CategoryHandler._handle_category_filter, given the events the store
\* returned and whether a requested category is not an available one
handle_category_filter(cmd, event_list, has_invalid) ==
    LET categories         == cmd.categories
        exclude_categories == cmd.exclude_categories
        category_str == JoinWith(categories, <<"+">>)
        exclude_str  == JoinWith(exclude_categories, <<"-">>)
        \* "🗂️ **カテゴリ検索結果** (" ... ")\n\n"
        title == Wording(17) \o category_str
                     \o (IF Len(exclude_str) > 0 THEN <<"-">> \o exclude_str ELSE <<>>)
                     \o <<")">> \o NL \o NL
        \* "**検索条件**: 含める=" ... ", 除外=" ... "\n"
        conditions == Wording(14) \o ReprList(categories) \o Wording(5)
                          \o ReprList(exclude_categories) \o NL
        \* "**結果件数**: " ... "件\n\n"
        count == KwKekkaKensuu \o <<":", " ">> \o Str(Len(event_list))
                     \o <<"j:ken">> \o NL \o NL
        listed == Concat([i \in 1..Len(event_list) |-> EventLine(event_list[i])])
        message == title \o conditions \o count \o listed
        limited == IF Len(message) > MAX_LENGTH
                   THEN category_truncate_message(message, event_list, Len(event_list))
                   ELSE message
    IN  IF Len(categories) = 0 THEN Wording(38)
        ELSE IF Len(event_list) = 0
        THEN IF has_invalid
             THEN Wording(19) \o JoinWith(categories, <<",", " ">>) \o Wording(31)
             ELSE Wording(42) \o ReprList(categories) \o Wording(5)
                      \o ReprList(exclude_categories)
        ELSE add_timeline_url(limited, "category", <<>>)

RECURSIVE SubIgnoreCase(_, _)
\* re.compile(re.escape(keyword), re.IGNORECASE).sub(f"**{keyword}**", text)
\* for a non-empty keyword: the leftmost match is replaced, then the rest
SubIgnoreCase(text, keyword) ==
    LET at == Occurrences(Lower(text), Lower(keyword))
    IN  IF at = {} THEN text
        ELSE SubSeq(text, 1, Min(at) - 1) \o <<"*", "*">> \o keyword \o <<"*", "*">>
                 \o SubIgnoreCase(From(text, Min(at) + Len(keyword)), keyword)

\* format_search_event(event) of search_events_message
format_search_event(ev, keyword) ==
    <<"*", "*">> \o Str(ev.year) \o <<"j:nen", "*", "*">> \o get_date_str(ev)
        \o <<"zsp">>
        \o (IF Contains(Lower(ev.content), Lower(keyword))
            THEN SubIgnoreCase(ev.content, keyword) ELSE ev.content)

\* TimelineDataService.search_events_message, given the events found
search_events_message(keyword, categories, event_list) ==
    LET formatter == [ev \in RowSet(event_list) |-> format_search_event(ev, keyword)]
        \* f"「{keyword}」の検索結果：" / f"「{keyword}」＋カテゴリ{categories}の検索結果："
        title == IF Len(categories) > 0
                 THEN Wording(1) \o keyword \o Wording(6) \o ReprList(categories)
                          \o Wording(6)
                 ELSE Wording(1) \o keyword \o Wording(7)
    IN  IF Len(event_list) = 0
        THEN IF Len(categories) > 0
             THEN Wording(1) \o keyword \o Wording(7) \o ReprList(categories)
                      \o Wording(20)
             ELSE Wording(1) \o keyword \o Wording(21)
        ELSE truncate_message_with_events(event_list, formatter, <<title, <<>>>>,
                                          <<>>, MAX_LENGTH)

\* SearchHandler.handle
handle_search(cmd, event_list) ==
    add_timeline_url(search_events_message(cmd.query, cmd.categories, event_list),
                     "search", cmd.query)

\* '。'
Kuten == <<"p:kuten">>

\* DecadeHandler._format_decade_event: the content up to its first '。'
format_decade_event(ev) ==
    <<"*", "*">> \o Str(ev.year) \o <<"j:nen", "*", "*">>
        \o (IF Contains(ev.content, Kuten)
            THEN Split1(ev.content, Kuten[1])[1] \o Kuten ELSE ev.content)

RECURSIVE UniqueByContent(_, _)
\* the loop over important_events with seen_contents (the cap of 500 events
\* is not reached by the lists considered)
UniqueByContent(event_list, seen_contents) ==
    IF Len(event_list) = 0 THEN <<>>
    ELSE IF Head(event_list).content \in seen_contents
    THEN UniqueByContent(Tail(event_list), seen_contents)
    ELSE <<Head(event_list)>>
             \o UniqueByContent(Tail(event_list),
                                seen_contents \cup {Head(event_list).content})

\* category_info of the decade handler
CategoryInfo(categories, exclude_categories) ==
    IF Len(categories) = 0 THEN <<>>
    \* "（カテゴリ: " ... ", 除外: " ... "）"
    ELSE Wording(7) \o JoinWith(categories, <<",", " ">>)
             \o (IF Len(exclude_categories) > 0
                 THEN Wording(6) \o JoinWith(exclude_categories, <<",", " ">>)
                 ELSE <<>>)
             \o Wording(1)

\* DecadeHandler._handle_representative, given the events the store returned;
\* important is importance > 0 of _calculate_event_importance
handle_representative(cmd, event_list) ==
    LET category_info == CategoryInfo(cmd.categories, cmd.exclude_categories)
        is_important(ev) == ev.important
        important_events == SortByDate(SelectRows(event_list,
                                {ev \in RowSet(event_list) : is_important(ev)}))
        top_events == UniqueByContent(important_events, {})
        formatter  == [ev \in RowSet(top_events) |-> format_decade_event(ev)]
        \* f"✨ **{decade_name}の主要な出来事{category_info}**"
        title  == Wording(4) \o cmd.decade_name \o Wording(7) \o category_info
                      \o <<"*", "*">>
        result == truncate_message_with_events(top_events, formatter, <<title, <<>>>>,
                                               <<>>, MAX_MESSAGE_LENGTH)
    IN  IF Len(event_list) = 0
        THEN cmd.decade_name \o category_info \o Wording(17)
        ELSE add_timeline_url(result, "decade", cmd.start_year)

-----------------------------------------------------------------------------
(* Specification of the handler replies: one call of a handler with the    *)
(* events the store returned                                                *)

MaxShown == 12

\* lengths of the content of an event
ContentLens == {10, 275, 355}

\* the i-th event of a result set: it holds the keyword q; every fifth has a
\* first sentence ending in '。', every fourth carries no HTML class
ResultEvent(i, len) ==
    [year |-> 1990 + (i % 10), month |-> 1, day |-> i,
     content |-> <<"q">> \o Pad2(i)
                     \o (IF i % 5 = 0 THEN Kuten ELSE <<"c">>)
                     \o Repeat("c", len - 4),
     important |-> i % 4 # 0]

ResultSets == {[i \in 1..n |-> ResultEvent(i, len)] : n \in 0..MaxShown, len \in ContentLens}

SearchCommands ==
    {[type |-> "search", query |-> <<"q">>, categories |-> cats, exclude_categories |-> <<>>] :
        cats \in {<<>>, << <<"a">> >>}}

DecadeCommands ==
    {[type |-> "decade", sub_type |-> "daihyou", start_year |-> 1990, end_year |-> 1999,
      decade_name |-> Str(1990) \o KwNendai,
      categories |-> cats, exclude_categories |-> <<>>] :
        cats \in {<<>>, << <<"a">> >>}}

FilterCommands ==
    {[type |-> "category", sub_type |-> "filter", categories |-> cats,
      exclude_categories |-> exc] :
        cats \in {<<>>, << <<"a">> >>, << <<"a">>, <<"B">> >>},
        exc \in {<<>>, << <<"c">> >>}}

\* messages handed to the truncation directly: without a blank line, with a
\* short header, with a header longer than the limit
LongMessages ==
    { Wording(3200),
      Wording(20) \o NL \o NL \o Wording(3200),
      Wording(3100) \o NL \o NL \o Wording(10) }

\* SearchHandler.handle(note, command)
HandleSearch ==
    \E cmd \in SearchCommands, found \in ResultSets :
        /\ phase = "compose"
        /\ a_fn' = "search_handler"
        /\ a_command' = cmd
        /\ a_events' = found
        /\ a_result' = handle_search(cmd, found)
        /\ a_header' = <<>> /\ a_footer' = <<>> /\ a_max' = MAX_LENGTH
        /\ phase' = "composed"
        /\ UNCHANGED <<cmdvars, dbvars, rtvars>>

\* DecadeHandler._handle_representative(...)
HandleRepresentative ==
    \E cmd \in DecadeCommands, found \in ResultSets :
        /\ phase = "compose"
        /\ a_fn' = "decade_handler"
        /\ a_command' = cmd
        /\ a_events' = found
        /\ a_result' = handle_representative(cmd, found)
        /\ a_header' = <<>> /\ a_footer' = <<>> /\ a_max' = MAX_MESSAGE_LENGTH
        /\ phase' = "composed"
        /\ UNCHANGED <<cmdvars, dbvars, rtvars>>

\* CategoryHandler._handle_category_filter(command)
HandleCategoryFilter ==
    \E cmd \in FilterCommands, found \in ResultSets, has_invalid \in BOOLEAN :
        /\ phase = "compose"
        /\ a_fn' = "category_handler"
        /\ a_command' = cmd
        /\ a_events' = found
        /\ a_result' = handle_category_filter(cmd, found, has_invalid)
        /\ a_header' = <<>> /\ a_footer' = <<>> /\ a_max' = MAX_LENGTH
        /\ phase' = "composed"
        /\ UNCHANGED <<cmdvars, dbvars, rtvars>>

\* CategoryHandler._truncate_message_with_events(message, events, total_count)
TruncateCategoryMessage ==
    \E message \in LongMessages, found \in ResultSets, more \in {0, 88} :
        /\ phase = "compose"
        /\ a_fn' = "category_truncate"
        /\ a_command' = [type |-> "None", message |-> message,
                         total_count |-> Len(found) + more]
        /\ a_events' = found
        /\ a_result' = category_truncate_message(message, found, Len(found) + more)
        /\ a_header' = <<>> /\ a_footer' = <<>> /\ a_max' = MAX_LENGTH
        /\ phase' = "composed"
        /\ UNCHANGED <<cmdvars, dbvars, rtvars>>

NextReply ==
    HandleSearch \/ HandleRepresentative \/ HandleCategoryFilter \/ TruncateCategoryMessage

SpecReply == InitAsm /\ [][NextReply]_vars

-----------------------------------------------------------------------------
(* Claims about the handler replies *)

Replied(fn) == phase = "composed" /\ a_fn = fn

\* C16: the text returned by the search, decade-representative and
\* category-filter handlers, with the link to the timeline appended, has at
\* most 3000 characters.
C16_ReplyWithinLimit ==
    (Replied("search_handler") \/ Replied("decade_handler") \/ Replied("category_handler"))
        => Len(a_result) <= MAX_LENGTH

\* C17: CategoryHandler._truncate_message_with_events returns at most 3000
\* characters, and when not all events are included the string contains the
\* notice '他N件' with N = total_count minus the number of included events.
C17_TruncatedWithinLimit ==
    Replied("category_truncate") =>
        LET included == IncludedCount(a_command.message, a_events)
        IN  /\ Len(a_result) <= MAX_LENGTH
            /\ (HeaderEnd(a_command.message) # -1 /\ included < a_command.total_count)
                   => Contains(a_result,
                               <<"j:hoka">> \o Str(a_command.total_count - included)
                                   \o <<"j:ken">>)

-----------------------------------------------------------------------------
(* CommandRouter.route_message (src/command_router.py 444-496): the note is *)
(* parsed, the handler registered for the command type is awaited, and any  *)
(* Exception is answered through the help handler.  The reply of a handler  *)
(* is the pair of a mark and the handler's type.                            *)

\* what handler.handle(note, command) returns when it does not raise
HandlerReply(h) == <<"reply of", h>>

\* the answer when no handler, not even the help handler, is registered
Unprocessable == Wording(21)

\* the answer when the fallback to the help handler fails as well
ApologyError == Wording(25)

\* an exception leaving route_message
Propagated == <<"raise">>

\* await handler.handle(note, command) for the handler registered as h
Handle(h, fail) ==
    IF h \in fail
    THEN [raised |-> TRUE,  value |-> <<>>,            called |-> <<h>>]
    ELSE [raised |-> FALSE, value |-> HandlerReply(h), called |-> <<h>>]

\* the selection without the fallback branch: an unregistered type is answered
\* with the fixed text
Dispatch_NoFallback(cmd, reg, fail) ==
    IF cmd.type \in reg
    THEN Handle(cmd.type, fail)
    ELSE [raised |-> FALSE, value |-> Unprocessable, called |-> <<>>]

\* if command_type in self.handlers: ... else: ... self.handlers.get('help')
Dispatch(cmd, reg, fail) ==
    IF cmd.type \in reg
    THEN Handle(cmd.type, fail)
    ELSE IF "help" \in reg
         THEN Handle("help", fail)
         ELSE [raised |-> FALSE, value |-> Unprocessable, called |-> <<>>]

\* the outcome of the try block for the text, the command parsed from it and
\* the outcome d of the dispatch
TryResult(text, cmd, d) ==
    [raised |-> d.raised, value |-> d.value, called |-> d.called,
     content |-> text, command |-> cmd]

\* command_type = command['type'] and the selection of the handler
RouteCommand(text, cmd, reg, fail) == TryResult(text, cmd, Dispatch(cmd, reg, fail))

\* command = self.parse_command(content, bot_username)
RouteText(text, bot, reg, fail) == RouteCommand(text, parse_command(text, bot), reg, fail)

\* the try block: getattr(note, 'text', '').strip(), parse_command, dispatch;
\* a note whose text is None raises AttributeError at strip()
TryBlock(n, bot, reg, fail) ==
    IF n.kind = "none"
    THEN [raised |-> TRUE, value |-> <<>>, called |-> <<>>,
          content |-> <<>>, command |-> None]
    ELSE RouteText(IF n.kind = "text" THEN Strip(n.text) ELSE <<>>, bot, reg, fail)

\* await handler.handle(note, {'type': 'help'}) of the except block: anything
\* the help handler raises is dropped
HelpOrApology(h) ==
    [value |-> IF h.raised THEN ApologyError ELSE h.value, called |-> h.called]

\* the except block: the help handler is tried, else the fixed apology
ErrorFallback(reg, fail) ==
    IF "help" \in reg
    THEN HelpOrApology(Handle("help", fail))
    ELSE [value |-> ApologyError, called |-> <<>>]

\* the exception of the try block t leaves the method
Propagate(t) ==
    [content |-> t.content, command |-> t.command, called |-> t.called,
     reply |-> IF t.raised THEN Propagated ELSE t.value, errors |-> 0]

\* route_message without its except block
route_message_Unguarded(n, bot, reg, fail) == Propagate(TryBlock(n, bot, reg, fail))

\* try: t; except Exception: error_count += 1, f
TryExcept(t, f) ==
    IF t.raised
    THEN [content |-> t.content, command |-> t.command,
          called |-> t.called \o f.called, reply |-> f.value, errors |-> 1]
    ELSE [content |-> t.content, command |-> t.command,
          called |-> t.called, reply |-> t.value, errors |-> 0]

route_message(n, bot, reg, fail) ==
    TryExcept(TryBlock(n, bot, reg, fail), ErrorFallback(reg, fail))

-----------------------------------------------------------------------------
(* Specification of the router: one note is routed                          *)

\* texts of notes: one for each command type, one that is no command, one
\* with surrounding white space, the empty text
NoteTexts ==
    { KwKyou,
      <<"3", "j:gatsu", "2", "j:nichi">>,
      KwKensaku \o <<" ", "q">>,
      KwHelp,
      KwStatus,
      <<"9", "0">> \o KwNendai,
      KwCategory \o <<" ", "a">>,
      <<"x">>,
      <<" ">> \o KwKyou \o <<" ", " ">>,
      <<>> }

\* a note with a text, a note whose text is None, an object without a text
\* attribute
Notes ==
    {[kind |-> "text", text |-> t] : t \in NoteTexts}
        \cup {[kind |-> "none"], [kind |-> "absent"]}

\* the registry built by __init__, and the registries that lack one handler
\* other than the help handler
Registries ==
    {HandlerTypes} \cup {HandlerTypes \ {t} : t \in HandlerTypes \ {"help"}}

\* the handlers that raise during a call: none, one, or one and the help handler
FailureSets ==
    {{}} \cup {{t} : t \in HandlerTypes} \cup {{t, "help"} : t \in HandlerTypes}

InitRoute ==
    /\ phase = "received"
    /\ note \in Notes
    /\ handlers \in Registries
    /\ bot_username \in {<<>>, BotName}
    /\ content = <<>>
    /\ command = None
    /\ entry = "none" /\ cat_expr_in = <<>>
    /\ raising = {} /\ called = <<>> /\ reply = <<>>
    /\ command_count = 0 /\ error_count = 0
    /\ calls = NoCalls
    /\ InitDbIdle
    /\ InitAsmIdle

\* a call route_message(note, bot_username) during which the handlers of
\* fail raise
RouteMessage ==
    /\ phase = "received"
    /\ \E fail \in FailureSets :
        \E r \in {route_message(note, bot_username, handlers, fail)} :
            /\ raising' = fail
            /\ content' = r.content
            /\ command' = r.command
            /\ called' = r.called
            /\ reply' = r.reply
            /\ command_count' = command_count + 1
            /\ error_count' = error_count + r.errors
    /\ phase' = "routed"
    /\ UNCHANGED <<note, handlers, bot_username, entry, cat_expr_in, calls, dbvars, asmvars>>

NextRoute == RouteMessage

SpecRoute == InitRoute /\ [][NextRoute]_vars

-----------------------------------------------------------------------------
(* Claims about the router *)

Routed == phase = "routed"

\* C19: the first handler awaited for a parsed note is the one registered for
\* the command type, which is one of today, date, search, help, status,
\* decade and category, or the help handler when no handler is registered for
\* the type; when it does not raise, it is the only handler awaited and its
\* output is the reply.
C19_DispatchByType ==
    (Routed /\ note.kind # "none") =>
        /\ command.type \in HandlerTypes
        /\ Len(called) >= 1
        /\ called[1] = (IF command.type \in handlers THEN command.type ELSE "help")
        /\ called[1] \notin raising =>
               (called = <<called[1]>> /\ reply = HandlerReply(called[1]))

\* a decade command has been routed to the decade handler of the full registry
C19_Witness ==
    /\ Routed
    /\ handlers = HandlerTypes
    /\ note = [kind |-> "text", text |-> <<"9", "0">> \o KwNendai]
    /\ command.type = "decade"
    /\ called = <<"decade">>
    /\ reply = HandlerReply("decade")

\* the replies route_message can return
ReplyStrings == {HandlerReply(h) : h \in HandlerTypes} \cup {Unprocessable, ApologyError}

\* C20: every routed note gets a reply string; when the parsing or the
\* selected handler raises, the reply is the output of the help handler,
\* and the fixed apology when the help handler raises as well.
C20_AlwaysReplies ==
    Routed =>
        /\ reply \in ReplyStrings
        /\ (note.kind = "none" \/ (called # <<>> /\ called[1] \in raising)) =>
               reply = (IF "help" \in raising THEN ApologyError ELSE HandlerReply("help"))

\* the search handler raised and the help handler raised after it
C20_Witness ==
    /\ Routed
    /\ note.kind = "text"
    /\ command.type = "search"
    /\ called = <<"search", "help">>
    /\ {"search", "help"} \subseteq raising
    /\ reply = ApologyError
    /\ error_count = 1

-----------------------------------------------------------------------------
(* Specification of the parser on texts that hold a numeral phrase: a       *)
(* decade 'YYYY年代' or 'NN年代', or a date 'M月D日'                        *)

\* the digits numerals are written with
YearDigits == {"0", "1", "2", "3", "9"}

\* years of four digits (from 1000 to 2999) and numbers of two digits
DecadeNumerals ==
    {<<a, b, c, d>> : a \in {"1", "2"}, b \in YearDigits, c \in YearDigits, d \in YearDigits}
        \cup {<<a, b>> : a \in YearDigits, b \in YearDigits}

\* what follows the phrase: nothing, or ' 代表'
PhraseSuffixes == {<<>>, <<" ", "j:dai", "j:hyou">>}

DecadeTexts == {n \o KwNendai \o t : n \in DecadeNumerals, t \in PhraseSuffixes}

\* numerals of months and of days: in range, zero, too large, with a leading
\* zero, of three digits
MonthNumerals == {<<"0">>, <<"1">>, <<"0", "5">>, <<"1", "2">>, <<"1", "3">>, <<"9", "9">>,
                  <<"1", "0", "0">>, <<"1", "0", "3">>, <<"1", "1", "2">>}

DayNumerals == {<<"0">>, <<"1">>, <<"0", "5">>, <<"3", "1">>, <<"3", "2">>, <<"3", "1", "0">>}

\* around the date: nothing, a decade phrase before it, a search after it
DatePrefixes == {<<>>, <<"9", "0">> \o KwNendai \o <<" ">>}

DateSuffixes == {<<>>, <<" ">> \o KwKensaku \o <<" ", "q">>}

DateTexts ==
    {a \o m \o <<"j:gatsu">> \o d \o <<"j:nichi">> \o b :
        a \in DatePrefixes, m \in MonthNumerals, d \in DayNumerals, b \in DateSuffixes}

NumeralTexts == DecadeTexts \cup DateTexts

InitNumeral ==
    /\ phase = "input"
    /\ content \in NumeralTexts
    /\ bot_username = <<>>
    /\ command = None
    /\ entry = "none" /\ cat_expr_in = <<>>
    /\ InitDbIdle
    /\ InitAsmIdle
    /\ InitRouteIdle

SpecNumeral == InitNumeral /\ [][NextCmd]_vars

-----------------------------------------------------------------------------
(* Claims about decade and date phrases *)

\* the longest run of digits of s that ends just before position p
DigitsBefore(s, p) ==
    LET k == Max({0} \cup {n \in 1..(p - 1) : AllDigits(s, p - n, n)})
    IN  SubSeq(s, p - k, p - 1)

\* the longest run of digits of s that starts at position p
DigitsFrom(s, p) ==
    LET k == Max({0} \cup {n \in 1..(Len(s) - p + 1) : AllDigits(s, p, n)})
    IN  SubSeq(s, p, p + k - 1)

\* the numeral of the first decade phrase of the text ('' when there is none)
DecadeNumeral(text) ==
    IF Find(text, KwNendai) = -1 THEN <<>>
    ELSE DigitsBefore(text, Find(text, KwNendai) + 1)

IsDecade(cmd, start) ==
    /\ cmd.type = "decade"
    /\ cmd.start_year = start
    /\ cmd.end_year = start + 9

\* C21: a text whose decade phrase is a year of four digits followed by
\* '年代' is parsed to a decade command that starts at that year and ends
\* nine years later.
C21_FourDigitDecade ==
    (Parsed /\ Len(DecadeNumeral(content)) = 4) =>
        IsDecade(command, ToInt(DecadeNumeral(content)))

\* C22 as stated: a text whose decade phrase is a number NN of two digits
\* followed by '年代' is parsed to a decade command that starts at 1900 + NN
\* and ends nine years later.
C22_TwoDigitDecade ==
    (Parsed /\ Len(DecadeNumeral(content)) = 2) =>
        IsDecade(command, 1900 + ToInt(DecadeNumeral(content)))

\* C22 amended: a text whose decade phrase is a number NN of two digits
\* followed by '年代' is parsed to the decade that starts at 1900 + NN,
\* except '10年代', which the table of decade strings maps to 2010-2019.
C22_TwoDigitDecadeExceptTen ==
    (Parsed /\ Len(DecadeNumeral(content)) = 2) =>
        IsDecade(command, IF DecadeNumeral(content) = <<"1", "0">>
                          THEN 2010
                          ELSE 1900 + ToInt(DecadeNumeral(content)))

\* '20年代 代表', which no decade string matches, has been parsed to 1920-1929
C22_Witness ==
    /\ Parsed
    /\ content = <<"2", "0">> \o KwNendai \o <<" ", "j:dai", "j:hyou">>
    /\ command.type = "decade"
    /\ command.sub_type = "daihyou"
    /\ command.start_year = 1920
    /\ command.end_year = 1929

\* the position of the first '月' of the text (0 when there is none)
MonthMark(text) == Find(text, <<"j:gatsu">>) + 1

\* the numeral before the first '月'
MonthNumeral(text) == DigitsBefore(text, MonthMark(text))

\* the numeral between the first '月' and a '日' ('' when there is none)
DayNumeral(text) ==
    LET d == DigitsFrom(text, MonthMark(text) + 1)
    IN  IF MatchAt(text, MonthMark(text) + 1 + Len(d), <<"j:nichi">>) THEN d ELSE <<>>

HasDatePhrase(text) ==
    MonthMark(text) > 0 /\ Len(MonthNumeral(text)) > 0 /\ Len(DayNumeral(text)) > 0

NoDecadePhrase(text) == ~Contains(text, KwNendai) /\ ~Contains(text, KwNenKara)

MonthInRange(m) == 1 <= m /\ m <= 12

DayInRange(d) == 1 <= d /\ d <= 31

\* what the rules after the date rule answer
LaterRules(text) ==
    IF HelpRule(text) # None THEN HelpRule(text)
    ELSE IF StatusRule(text) # None THEN StatusRule(text)
    ELSE IF SearchRule(text) # None THEN SearchRule(text)
    ELSE IF parse_category_command(text) # None THEN parse_category_command(text)
    ELSE IF TodayRule(text) # None THEN TodayRule(text)
    ELSE [type |-> "help"]

DateCommand(m, d) == [type |-> "date", month |-> m, day |-> d]

\* C23 as stated: every date command has a month from 1 to 12 and a day
\* from 1 to 31; a text without a decade phrase whose month and day numbers
\* are in range is parsed to the date command of these numbers; a text whose
\* numbers are out of range is not parsed to a date command but to what the
\* later rules answer.
C23_DateInRange ==
    Parsed =>
        LET m == ToInt(MonthNumeral(content))
            d == ToInt(DayNumeral(content))
        IN  /\ command.type = "date" =>
                   (MonthInRange(command.month) /\ DayInRange(command.day))
            /\ (NoDecadePhrase(content) /\ HasDatePhrase(content)
                    /\ MonthInRange(m) /\ DayInRange(d)) =>
                   command = DateCommand(m, d)
            /\ (NoDecadePhrase(content) /\ HasDatePhrase(content)
                    /\ ~(MonthInRange(m) /\ DayInRange(d))) =>
                   (command.type # "date" /\ command = LaterRules(content))

\* the last two digits of a numeral
LastTwo(n) == IF Len(n) <= 2 THEN n ELSE SubSeq(n, Len(n) - 1, Len(n))

\* C23 amended: every date command has a month from 1 to 12 and a day from
\* 1 to 31; in a text without a decade phrase the month is read from the
\* last two digits before '月' and the day from a numeral of at most two
\* digits before '日': when both are in range the text is parsed to the
\* date command of these numbers, otherwise to what the later rules answer.
C23_DateOfLastTwoDigits ==
    Parsed =>
        LET m  == ToInt(LastTwo(MonthNumeral(content)))
            d  == ToInt(DayNumeral(content))
            ok == Len(DayNumeral(content)) <= 2 /\ MonthInRange(m) /\ DayInRange(d)
        IN  /\ command.type = "date" =>
                   (MonthInRange(command.month) /\ DayInRange(command.day))
            /\ (NoDecadePhrase(content) /\ HasDatePhrase(content) /\ ok) =>
                   command = DateCommand(m, d)
            /\ (NoDecadePhrase(content) /\ HasDatePhrase(content) /\ ~ok) =>
                   (command.type # "date" /\ command = LaterRules(content))

\* '13月1日 検索 q' has been parsed to a search command
C23_Witness ==
    /\ Parsed
    /\ content = <<"1", "3", "j:gatsu", "1", "j:nichi", " ">> \o KwKensaku \o <<" ", "q">>
    /\ HasDatePhrase(content)
    /\ command.type = "search"

-----------------------------------------------------------------------------
(* Claims about the loop of the message assembly *)

\* the locals of _truncate_message_with_events after its loop
AfterLoop == FillLoop(a_events, LineOf, a_header, SumChars(a_header), 0, a_max)

\* C24: after the items have been processed, current_chars is the length of
\* the accumulated lines (the header, every included line and every blank
\* separator line), each counted with its newline.
C24_CurrentCharsIsLength ==
    (Assembled /\ Len(a_events) > 0) =>
        AfterLoop.current_chars = SumChars(AfterLoop.message_parts)

RECURSIVE LinesChars(_, _)
\* the characters of the first k item lines, each with its newline
LinesChars(items, k) ==
    IF k = 0 THEN 0 ELSE LinesChars(items, k - 1) + Len(LineOf[items[k]]) + 1

\* the longest prefix of the items whose lines fit the budget after the header
FittingPrefix(items, header, max_chars) ==
    Max({0} \cup {k \in 1..Len(items) :
                     SumChars(header) + LinesChars(items, k) <= max_chars})

\* header, the first k item lines with a blank line between them, footer,
\* and the notice of the items left when k is not all of them
PrefixMessage(items, header, footer, k) ==
    LET body   == header \o Concat([i \in 1..k |-> <<LineOf[items[i]], <<>>>>])
        popped == IF Len(body) > 0 /\ body[Len(body)] = <<>>
                  THEN SubSeq(body, 1, Len(body) - 1) ELSE body
        notice == IF k < Len(items)
                  THEN << <<>>, RemainderNotice(Len(items) - k) >> ELSE <<>>
    IN  JoinWith(popped \o footer \o notice, NL)

\* C25: the included items are the longest prefix of the items that fits:
\* once an item does not fit no later item is included, and the notice counts
\* the items that are not included; the returned string is this message, cut
\* to the budget when it is longer.
C25_IncludedIsPrefix ==
    (Assembled /\ Len(a_events) > 0) =>
        LET k   == FittingPrefix(a_events, a_header, a_max)
            msg == PrefixMessage(a_events, a_header, a_footer, k)
        IN  /\ Included = k
            /\ a_result = (IF Len(msg) > a_max
                           THEN SliceTo(msg, a_max - 3) \o Ellipsis ELSE msg)

\* of a short, a long and a short item under a budget of 16 only the first
\* is included, although the third would fit, and the notice counts two
C25_Witness ==
    /\ Assembled
    /\ a_events = <<1, 20, 1>>
    /\ a_header = <<>> /\ a_footer = <<>>
    /\ a_max = 16
    /\ Included = 1
    /\ a_result = <<"x">> \o NL \o NL \o RemainderNotice(2)

-----------------------------------------------------------------------------
(* Claims about the status and search rules *)

\* what the category rule and the rules after it answer
CategoryOrLater(text) ==
    IF parse_category_command(text) # None THEN parse_category_command(text)
    ELSE IF TodayRule(text) # None THEN TodayRule(text)
    ELSE [type |-> "help"]

\* C26: a text that begins with the category keyword is never parsed to a
\* status or a search command, whatever keywords it holds; unless the
\* decade, date or help rule recognises it, it is parsed to what the category
\* rule and the rules after it answer.
C26_CategoryFirstNotShadowed ==
    (Parsed /\ StartsWith(Seen, KwCategory)) =>
        /\ command.type \notin {"status", "search"}
        /\ (\A k \in 1..3 : ~Recognises(k, Seen)) => command = CategoryOrLater(Seen)

\* 'カテゴリ ステータス' has been parsed to a category command
C26_Witness ==
    /\ Parsed
    /\ Seen = KwCategory \o <<" ">> \o KwStatus
    /\ command.type = "category"
    /\ command.categories = <<KwStatus>>

\* the search keywords found in the lowered text
FoundSearchKeywords(text) ==
    {k \in 1..Len(SearchKeywords) : Contains(Lower(text), SearchKeywords[k])}

\* a search keyword is found and nothing is left of the text once any found
\* keyword is removed
OnlySearchKeyword(text) ==
    /\ FoundSearchKeywords(text) # {}
    /\ \A k \in FoundSearchKeywords(text) :
           Len(Strip(StrReplace(text, SearchKeywords[k], <<>>))) = 0

\* C27: every search command returned by the parser carries a non-empty
\* query; a text that no earlier rule recognises, of which nothing is left
\* once the search keyword is removed and which the combined pattern
\* '<keyword> <query> カテゴリ <expr>' does not match, is not parsed by the
\* search rule but by the category rule and the rules after it.
C27_SearchQueryNonEmpty ==
    Parsed =>
        /\ command.type = "search" => Len(command.query) > 0
        /\ (/\ \A k \in 1..4 : ~Recognises(k, Seen)
            /\ OnlySearchKeyword(Seen)
            /\ ~SearchCatPattern(Seen).matched) =>
                /\ SearchRule(Seen) = None
                /\ command = CategoryOrLater(Seen)

\* a text that is a search keyword between blanks has been parsed to help
C27_Witness ==
    /\ Parsed
    /\ OnlySearchKeyword(Seen)
    /\ Contains(content, KwKensaku \o <<" ">>)
    /\ command = [type |-> "help"]

-----------------------------------------------------------------------------
(* Claims that compare the category queries of the store *)

\* the events a list holds
EventSet(evs) == {evs[i] : i \in 1..Len(evs)}

\* the first and the last year of the specification's tables
AllYears == <<2000, 2000 + MaxEvents - 1>>

\* C28: for a non-empty include list and a limit that is not reached,
\* get_events_by_categories selects the same set of events as
\* get_events_by_decade_and_categories over a range of years that holds
\* every event.
C28_EvaluatorsAgree ==
    (/\ Queried("get_events_by_categories")
     /\ Len(q_include) > 0
     /\ q_limit > Len(events))
        => Returned = EventSet(get_events_by_decade_and_categories(
                                   events, AllYears[1], AllYears[2],
                                   q_include, q_exclude, q_limit))

\* the stored events that match under the exact-tag rule, in the order of
\* the scan by date
MatchingInOrder(ordered, include, exclude) ==
    SelectRows(ordered, {ev \in RowSet(ordered) : Matches(ev, include, exclude)})

\* C29: get_events_by_categories(include, exclude, limit) returns the first
\* min(limit, M) events that match under the exact-tag rule, in the order of
\* their dates, M being the number of matching events of the store.
C29_FirstMatchingUpToLimit ==
    (Queried("get_events_by_categories") /\ Len(q_include) > 0)
        => q_result = Take(MatchingInOrder(q_scan, q_include, q_exclude), q_limit)

-----------------------------------------------------------------------------
(* Specification of the router under concurrent calls.  route_message is a  *)
(* coroutine: it runs without interruption up to an await of               *)
(* handler.handle, where the event loop may run other coroutines and        *)
(* callers of reset_statistics.  A call is a record of its position (pos),  *)
(* the handler it awaits (awaited) and its returned string (reply).         *)

MaxCalls == 2

MaxCommands == 3

\* notes of the concurrent calls: a today command, a text that is no
\* command, a note whose text is None
ConcNotes ==
    { [kind |-> "text", text |-> KwKyou],
      [kind |-> "text", text |-> <<"x">>],
      [kind |-> "none"] }

NotStarted == [pos |-> "idle", awaited |-> "none", reply |-> <<>>]

Finished(value) == [pos |-> "done", awaited |-> "none", reply |-> value]

\* the first await of the try block for the parsed command: the registered
\* handler, else the help handler, else the method returns the fixed text
AwaitFor(cmd, reg) ==
    IF cmd.type \in reg
    THEN [pos |-> "handling", awaited |-> cmd.type, reply |-> <<>>]
    ELSE IF "help" \in reg
         THEN [pos |-> "handling", awaited |-> "help", reply |-> <<>>]
         ELSE Finished(Unprocessable)

\* the except block after error_count += 1: the help handler is awaited,
\* else the method returns the fixed apology
ExceptEntry(reg) ==
    IF "help" \in reg
    THEN [pos |-> "fallback", awaited |-> "help", reply |-> <<>>]
    ELSE Finished(ApologyError)

\* route_message from its entry to its first await
ToFirstAwait(n, bot, reg) ==
    IF n.kind = "none"
    THEN [call |-> ExceptEntry(reg), errors |-> 1]
    ELSE [call |-> AwaitFor(parse_command(Strip(n.text), bot), reg), errors |-> 0]

InitConc ==
    /\ phase = "serving"
    /\ note = [kind |-> "absent"]
    /\ handlers \in Registries
    /\ bot_username = <<>>
    /\ content = <<>>
    /\ command = None
    /\ entry = "none" /\ cat_expr_in = <<>>
    /\ raising = {} /\ called = <<>> /\ reply = <<>>
    /\ command_count = 0 /\ error_count = 0
    /\ calls = [c \in 1..MaxCalls |-> NotStarted]
    /\ InitDbIdle
    /\ InitAsmIdle

ConcUnchanged ==
    UNCHANGED <<phase, note, handlers, raising, called, reply, cmdvars, dbvars, asmvars>>

\* a call route_message(note, bot_username) starts and runs to its first
\* await: command_count += 1, the note is parsed, the handler is selected
BeginCall(c) ==
    /\ calls[c].pos \in {"idle", "done"}
    /\ command_count < MaxCommands
    /\ \E n \in ConcNotes :
        \E f \in {ToFirstAwait(n, bot_username, handlers)} :
            /\ calls' = [calls EXCEPT ![c] = f.call]
            /\ command_count' = command_count + 1
            /\ error_count' = error_count + f.errors
    /\ ConcUnchanged

\* the awaited handler returns: route_message returns its result
HandlerReturns(c) ==
    /\ calls[c].pos = "handling"
    /\ calls' = [calls EXCEPT ![c] = Finished(HandlerReply(calls[c].awaited))]
    /\ UNCHANGED <<command_count, error_count>>
    /\ ConcUnchanged

\* the awaited handler raises: the except block counts the error and
\* awaits the help handler
HandlerRaises(c) ==
    /\ calls[c].pos = "handling"
    /\ error_count' = error_count + 1
    /\ calls' = [calls EXCEPT ![c] = ExceptEntry(handlers)]
    /\ UNCHANGED command_count
    /\ ConcUnchanged

\* the help handler of the except block returns
FallbackReturns(c) ==
    /\ calls[c].pos = "fallback"
    /\ calls' = [calls EXCEPT ![c] = Finished(HandlerReply("help"))]
    /\ UNCHANGED <<command_count, error_count>>
    /\ ConcUnchanged

\* the help handler of the except block raises: the fixed apology
FallbackRaises(c) ==
    /\ calls[c].pos = "fallback"
    /\ calls' = [calls EXCEPT ![c] = Finished(ApologyError)]
    /\ UNCHANGED <<command_count, error_count>>
    /\ ConcUnchanged

\* reset_statistics()
ResetStatistics ==
    /\ command_count' = 0
    /\ error_count' = 0
    /\ UNCHANGED calls
    /\ ConcUnchanged

NextConc ==
    \/ \E c \in 1..MaxCalls : BeginCall(c)
    \/ \E c \in 1..MaxCalls : HandlerReturns(c)
    \/ \E c \in 1..MaxCalls : HandlerRaises(c)
    \/ \E c \in 1..MaxCalls : FallbackReturns(c)
    \/ \E c \in 1..MaxCalls : FallbackRaises(c)
    \/ ResetStatistics

SpecConc == InitConc /\ [][NextConc]_vars

-----------------------------------------------------------------------------
(* Claims about the statistics of the router *)

\* get_router_status()['error_rate'] = error_count / max(command_count, 1)
\* lies in [0, 1]
ErrorRateInUnit ==
    /\ error_count >= 0
    /\ error_count <= (IF command_count > 1 THEN command_count ELSE 1)

\* C30: in every state reached by concurrent route_message calls, which
\* suspend while a handler runs, and reset_statistics calls, error_count is
\* at most command_count, and the reported error_rate lies in [0, 1].
C30_ErrorsAtMostCommands ==
    /\ error_count <= command_count
    /\ ErrorRateInUnit

====
